---- MODULE Spec2Model ----
(***************************************************************************)
(* Model of the Jira movement reporter (jira_sheet_sync.py and src/*.py):  *)
(* the movement event deriver, the incremental cache and its merge, the    *)
(* run of main() against the tracker, the cache files and the              *)
(* movement_events tab.                                                    *)
(*                                                                         *)
(* Python values: a list is a sequence, a dict is a sequence of            *)
(* <<key, value>> pairs with pairwise distinct keys in insertion order (a  *)
(* Python dict iterates in insertion order), a str is a string, None is    *)
(* the value None below.  Timestamps are the strings IsoStr(t) of a        *)
(* logical clock t.                                                        *)
(***************************************************************************)
EXTENDS Integers, Sequences, FiniteSets, TLC

VARIABLES
  \* ---- derivation of movement events (parse_movement_events) ----
  p_phase,        \* "input" | "parsed" | "rederived"
  p_issues,       \* issues argument of the first derivation
  p_changelogs,   \* changelogs argument of the first derivation
  p_events,       \* its result
  p_kind,         \* how the second derivation's input differs from the first
  p_issues2,      \* issues argument of the second derivation
  p_changelogs2,  \* changelogs argument of the second derivation
  p_events2,      \* its result
  \* ---- merge of a delta into the cached corpus (merge_updated_issues) ----
  m_phase,              \* "input" | "merged" | "merged2"
  m_cached_issues,      \* the arguments of the call
  m_updated_issues,
  m_updated_changelogs,
  m_cached_changelogs,
  m_merged,             \* its result <<issues, changelogs>>
  m_merged2,            \* the result of merging the same delta into m_merged
  \* ---- the runs of main() and what they act on ----
  now,            \* the wall clock, in minutes
  tracker,        \* the issue tracker: key -> issue with its change history
  cfgfile,        \* config.yaml: the configured backfill_from
  f_issues,       \* .cache/issues.json
  f_changelogs,   \* .cache/changelogs.json
  f_meta,         \* .cache/meta.json
  dashboard,      \* whether dashboard/index.html exists
  sheet,          \* the movement_events tab: [exists, rows]
  unstamped,      \* history: the cache files written after the last write of meta.json
  pc,             \* where the running process is in main(); "idle" when none runs
  run,            \* the local variables of the running process
  \* ---- the tables computed from the events (status_matrix.py, metrics.py) ----
  c_phase,        \* "input" | "computed"
  c_events,       \* the argument events
  c_issues,       \* the argument issues
  c_run_time,     \* the evaluation instant (run_time, datetime.now)
  c_long,         \* status_durations_long, with its header
  c_matrix,       \* status_matrix, with its header
  c_cycle,        \* cycle_data of compute_metrics
  c_metrics,      \* the tables returned by compute_metrics
  \* ---- the percentiles of a list of samples (_percentile) ----
  q_phase,        \* "input" | "computed"
  q_data,         \* the samples, in thousandths of an hour
  q_p50,          \* _percentile(data, 50)
  q_p90,          \* _percentile(data, 90)
  \* ---- one call of JiraClient._get ----
  g_pc,           \* "off" | "loop" | "returned" | "raised"
  g_max_retries,  \* cfg.max_retries
  g_attempt,      \* the loop variable attempt: the index of the next iteration
  g_backoff,      \* the local backoff, in sixteenths of a second
  g_responses,    \* history: what each session.get met, in order
  g_slept,        \* history: the arguments of time.sleep, in order
  g_result        \* the value returned or the exception raised

parseVars == <<p_phase, p_issues, p_changelogs, p_events,
               p_kind, p_issues2, p_changelogs2, p_events2>>

mergeVars == <<m_phase, m_cached_issues, m_updated_issues, m_updated_changelogs,
               m_cached_changelogs, m_merged, m_merged2>>

pipeVars == <<now, tracker, cfgfile, f_issues, f_changelogs, f_meta,
              dashboard, sheet, unstamped, pc, run>>

calcVars == <<c_phase, c_events, c_issues, c_run_time, c_long, c_matrix, c_cycle,
              c_metrics>>

pctVars == <<q_phase, q_data, q_p50, q_p90>>

getVars == <<g_pc, g_max_retries, g_attempt, g_backoff, g_responses, g_slept,
             g_result>>

vars == <<parseVars, mergeVars, pipeVars, calcVars, pctVars, getVars>>

(***************************************************************************)
(* Python helpers                                                          *)
(***************************************************************************)
None == "<null>"

\* `v or d` for a str-or-None v: None and "" are both falsy
PyOr(v, d) == IF v = None \/ v = "" THEN d ELSE v

Range(s) == {s[i] : i \in 1..Len(s)}

\* keys of a dict / whether a key is in it / the value at a key
DictKeys(d) == {d[i][1] : i \in 1..Len(d)}
DictHas(d, k) == k \in DictKeys(d)
DictGet(d, k) == d[CHOOSE i \in 1..Len(d) : d[i][1] = k][2]

(***************************************************************************)
(* src/changelog_parser.py                                                 *)
(***************************************************************************)

\* issue_map = {i["key"]: i for i in issues}: a later snapshot of a key
\* overwrites an earlier one, so the map holds the LAST snapshot per key.
issue_map_has(issues, key) == \E i \in 1..Len(issues) : issues[i]["key"] = key

issue_map_get(issues, key) ==
  issues[CHOOSE i \in 1..Len(issues) :
           /\ issues[i]["key"] = key
           /\ \A j \in (i+1)..Len(issues) : issues[j]["key"] # key]

\* raw_id = f"{issue_key}|{changed_at}|{from_status}|{to_status}"
raw_id(issue_key, changed_at, from_status, to_status) ==
  issue_key \o "|" \o changed_at \o "|" \o from_status \o "|" \o to_status

\* hashlib.sha256(raw_id.encode()).hexdigest()[:16]: a fixed function of the
\* string, taken to be collision free; the digest of s is written "#" \o s.
sha256_16(s) == "#" \o s

\* The mutant of MovementEvent for C2: the author enters the identifier.
MovementEventAuthorInId(issue, issue_key, author, changed_at, item) ==
  LET from_status == PyOr(item["fromString"], "")
      to_status   == PyOr(item["toString"], "")
  IN [event_id       |-> sha256_16(raw_id(issue_key, changed_at \o author,
                                          from_status, to_status)),
      issue_key      |-> issue_key,
      created        |-> issue["created"],
      from_status    |-> from_status,
      to_status      |-> to_status,
      changed_at     |-> changed_at,
      changed_by     |-> author,
      assignee       |-> issue["assignee"],
      current_status |-> issue["status"]]

\* The row built for one status item (lines 53-78).  Of MOVEMENT_COLUMNS the
\* model keeps event_id, issue_key, created, from_status, to_status,
\* changed_at, changed_by, assignee and current_status; project, issue_type,
\* priority, resolved, labels, components, team_field and current_assignee
\* are further copies of snapshot fields, as created and assignee are.
MovementEvent(issue, issue_key, author, changed_at, item) ==
  LET from_status == PyOr(item["fromString"], "")
      to_status   == PyOr(item["toString"], "")
  IN [event_id       |-> sha256_16(raw_id(issue_key, changed_at,
                                          from_status, to_status)),
      issue_key      |-> issue_key,
      created        |-> issue["created"],
      from_status    |-> from_status,
      to_status      |-> to_status,
      changed_at     |-> changed_at,
      changed_by     |-> author,
      assignee       |-> issue["assignee"],
      current_status |-> issue["status"]]

\* Mutants of ItemEvents: one that skips an item whose identifier was already
\* emitted for the entry, and one that also emits non-status items.
RECURSIVE ItemEventsDedup(_, _, _, _, _)
ItemEventsDedup(issue, issue_key, author, changed_at, items) ==
  IF items = <<>> THEN <<>>
  ELSE LET n    == Len(items)
           rest == ItemEventsDedup(issue, issue_key, author, changed_at,
                                   SubSeq(items, 1, n - 1))
           ev   == MovementEvent(issue, issue_key, author, changed_at, items[n])
       IN IF items[n]["field"] # "status" THEN rest
          ELSE IF \E i \in 1..Len(rest) : rest[i]["event_id"] = ev["event_id"]
               THEN rest
               ELSE Append(rest, ev)

RECURSIVE ItemEventsAnyField(_, _, _, _, _)
ItemEventsAnyField(issue, issue_key, author, changed_at, items) ==
  IF items = <<>> THEN <<>>
  ELSE Append(ItemEventsAnyField(issue, issue_key, author, changed_at,
                                 SubSeq(items, 1, Len(items) - 1)),
              MovementEvent(issue, issue_key, author, changed_at,
                            items[Len(items)]))

\* for item in entry.get("items", []): (lines 49-78)
RECURSIVE ItemEvents(_, _, _, _, _)
ItemEvents(issue, issue_key, author, changed_at, items) ==
  IF items = <<>> THEN <<>>
  ELSE LET n    == Len(items)
           rest == ItemEvents(issue, issue_key, author, changed_at,
                              SubSeq(items, 1, n - 1))
       IN IF items[n]["field"] # "status" THEN rest
          ELSE Append(rest, MovementEvent(issue, issue_key, author,
                                          changed_at, items[n]))

\* for entry in cl_entries: (lines 45-78)
\* author = (entry.get("author") or {}).get("displayName", "")
RECURSIVE EntryEvents(_, _, _)
EntryEvents(issue, issue_key, cl_entries) ==
  IF cl_entries = <<>> THEN <<>>
  ELSE LET n     == Len(cl_entries)
           entry == cl_entries[n]
           author == IF entry["author"] = None THEN "" ELSE entry["author"]
       IN EntryEvents(issue, issue_key, SubSeq(cl_entries, 1, n - 1))
          \o ItemEvents(issue, issue_key, author, entry["created"],
                        entry["items"])

\* for issue_key, cl_entries in changelogs.items(): (lines 40-78)
RECURSIVE parse_movement_events(_, _)
parse_movement_events(issues, changelogs) ==
  IF changelogs = <<>> THEN <<>>
  ELSE LET n         == Len(changelogs)
           issue_key == changelogs[n][1]
           before    == parse_movement_events(issues, SubSeq(changelogs, 1, n - 1))
       IN IF ~issue_map_has(issues, issue_key) THEN before
          ELSE before \o EntryEvents(issue_map_get(issues, issue_key),
                                     issue_key, changelogs[n][2])

(***************************************************************************)
(* src/cache.py: merge_updated_issues                                      *)
(***************************************************************************)

\* {**a, **b}: a's keys keep their place and take b's value where b has the
\* key; b's other keys follow in b's order.
DictUpdate(a, b) ==
  [i \in 1..Len(a) |->
     IF DictHas(b, a[i][1]) THEN <<a[i][1], DictGet(b, a[i][1])>> ELSE a[i]]
  \o SelectSeq(b, LAMBDA kv : ~DictHas(a, kv[1]))

\* The mutant of merged_issues for C6: the cached counterparts stay.
MergedIssuesNoFilter(cached_issues, updated_issues) ==
  cached_issues \o updated_issues

\* merged_issues = [i for i in cached_issues if i["key"] not in updated_keys]
\*                 + updated_issues            (lines 98-101)
merged_issues(cached_issues, updated_issues) ==
  LET updated_keys == {updated_issues[i]["key"] : i \in 1..Len(updated_issues)}
  IN SelectSeq(cached_issues, LAMBDA i : i["key"] \notin updated_keys)
     \o updated_issues

\* The mutant of merged_changelogs for C5: the cached history wins.
MergedChangelogsCachedWins(cached_changelogs, updated_changelogs) ==
  DictUpdate(updated_changelogs, cached_changelogs)

\* merged_changelogs = {**cached_changelogs, **updated_changelogs} (line 104)
merged_changelogs(cached_changelogs, updated_changelogs) ==
  DictUpdate(cached_changelogs, updated_changelogs)

merge_updated_issues(cached_issues, updated_issues, updated_changelogs, cached_changelogs) ==
  <<merged_issues(cached_issues, updated_issues),
    merged_changelogs(cached_changelogs, updated_changelogs)>>

(***************************************************************************)
(* Time.  The clock counts minutes; a timestamp is an ISO string.          *)
(***************************************************************************)
MaxTime == 1   \* the last minute of the clock

\* datetime.isoformat() of minute t
IsoStr(t) == "T" \o ToString(t)
\* datetime.fromisoformat(s): the minute an ISO string names
FromIso(s) == CHOOSE t \in 0..(MaxTime + 1) : IsoStr(t) = s
\* dt.strftime("%Y-%m-%d %H:%M")
MinuteStr(t) == "M" \o ToString(t)
\* the timestamp of the n-th change-history entry of an issue, made in minute
\* t: successive entries of one issue differ in their seconds
ChangedAt(t, n) == IsoStr(t) \o "." \o ToString(n)

(***************************************************************************)
(* src/config.py                                                           *)
(***************************************************************************)
\* load_config(): the fields that decide what is fetched.  config.yaml sets
\* no jql_override.
load_config(backfill_from) ==
  [jira_base_url     |-> "https://jira",
   jira_project_keys |-> "['X']",
   backfill_from     |-> backfill_from,
   jira_jql_override |-> None]

(***************************************************************************)
(* src/jira_client.py                                                      *)
(***************************************************************************)
\* the JQL of set_incremental_since (line 194)
IncrementalJql(since_str) == "(project = X) AND updated >= " \o since_str

\* set_incremental_since: the JQL override of the run's Config object is
\* overwritten (lines 185-195)
set_incremental_since(cfg, since_iso) ==
  [cfg EXCEPT !["jira_jql_override"] = IncrementalJql(MinuteStr(FromIso(since_iso)))]

\* _build_jql (lines 69-74)
_build_jql(cfg) ==
  IF cfg["jira_jql_override"] # None /\ cfg["jira_jql_override"] # ""
  THEN cfg["jira_jql_override"]
  ELSE "(project = X) AND updated >= " \o cfg["backfill_from"]

TKeys   == {"X-1", "X-2"}
TKeySeq == <<"X-1", "X-2">>

\* the tracker's evaluation of a JQL: every issue of the project for the
\* backfill query (both backfill dates precede the clock), the issues updated
\* in or after the named minute for an incremental query
JqlMatches(jql, issue) ==
  /\ issue["exists"]
  /\ \A t \in 0..(MaxTime + 1) :
       jql = IncrementalJql(MinuteStr(t)) => issue["updated"] >= t

\* _flatten_issue (lines 151-183)
_flatten_issue(key, issue) ==
  [key |-> key, status |-> issue["status"], created |-> IsoStr(issue["created"]),
   assignee |-> ""]

\* ORDER BY updated ASC (ties in key order)
RECURSIVE OrderByUpdated(_, _)
OrderByUpdated(trk, keys) ==
  IF keys = {} THEN <<>>
  ELSE LET k == CHOOSE x \in keys :
                  \A y \in keys \ {x} :
                     \/ trk[x]["updated"] < trk[y]["updated"]
                     \/ /\ trk[x]["updated"] = trk[y]["updated"]
                        /\ \E i, j \in 1..Len(TKeySeq) :
                             i < j /\ TKeySeq[i] = x /\ TKeySeq[j] = y
       IN <<k>> \o OrderByUpdated(trk, keys \ {k})

\* fetch_issues (lines 45-52): the snapshots of the issues matching the JQL
fetch_issues(trk, cfg) ==
  LET jql  == _build_jql(cfg)
      keys == OrderByUpdated(trk, {k \in TKeys : JqlMatches(jql, trk[k])})
  IN [i \in 1..Len(keys) |-> _flatten_issue(keys[i], trk[keys[i]])]

\* fetch_changelogs (lines 54-63): {key: change history} in the issues' order
fetch_changelogs(trk, issues) ==
  [i \in 1..Len(issues) |-> <<issues[i]["key"], trk[issues[i]["key"]]["log"]>>]

(***************************************************************************)
(* src/jira_client.py: _get                                                *)
(* A duration is a number of sixteenths of a second, so that the back-off  *)
(* 1.0, 1.5, 2.25, ... stays a whole number.                               *)
(***************************************************************************)
\* the bodies a response carries
OkBody   == "{issues: []}"
ErrBody  == "{errorMessages: []}"
HtmlBody == "<html>"

\* the forms of Retry-After (RFC 9110, 10.2.3): delay seconds or an HTTP date
DelaySeconds == "2"
HttpDate     == "Wed, 21 Oct 2015 07:28:00 GMT"

\* float(x) of a header value: <<seconds>>, or <<>> where it raises ValueError
PyFloat(x) == IF x = DelaySeconds THEN <<32>> ELSE <<>>

\* resp.json(): <<the value>>, or <<>> where the body is not JSON
resp_json(text) ==
  IF text = OkBody THEN <<[issues |-> <<>>]>>
  ELSE IF text = ErrBody THEN <<[errorMessages |-> <<>>]>>
  ELSE <<>>

\* backoff *= self.cfg.retry_backoff, with the default retry_backoff 1.5
NextBackoff(backoff) == (backoff * 3) \div 2

\* except requests.RequestException (lines 139-144)
OnRequestException(exc, attempt, backoff, max_retries) ==
  IF attempt = max_retries - 1
  THEN [pc |-> "raised", result |-> <<"raise", exc>>, backoff |-> backoff,
        slept |-> <<>>]
  ELSE [pc |-> "loop", result |-> <<>>, backoff |-> NextBackoff(backoff),
        slept |-> <<backoff>>]

\* if resp.status_code == 429: (lines 126-131)
OnStatus429(resp, backoff) ==
  LET retry_after == IF DictHas(resp["headers"], "Retry-After")
                     THEN PyFloat(DictGet(resp["headers"], "Retry-After"))
                     ELSE <<backoff>>
  IN IF retry_after = <<>>
     THEN [pc |-> "raised", result |-> <<"raise", "ValueError">>,
           backoff |-> backoff, slept |-> <<>>]
     ELSE [pc |-> "loop", result |-> <<>>, backoff |-> NextBackoff(backoff),
           slept |-> retry_after]

\* one iteration of the loop (lines 123-144) on what session.get met.
\* resp.json() on a body that is not JSON raises an exception that is a
\* requests.RequestException from requests 2.27 on and a plain ValueError
\* before; the repository pins no version.
Iteration(resp, attempt, backoff, max_retries, json_error_is_request_exception) ==
  IF resp["error"] # None
  THEN OnRequestException(resp["error"], attempt, backoff, max_retries)
  ELSE IF resp["status_code"] = 429 THEN OnStatus429(resp, backoff)
  ELSE IF resp["status_code"] >= 500
  THEN [pc |-> "loop", result |-> <<>>, backoff |-> NextBackoff(backoff),
        slept |-> <<backoff>>]
  ELSE IF resp["status_code"] >= 400
  THEN OnRequestException("HTTPError", attempt, backoff, max_retries)
  ELSE IF resp_json(resp["text"]) # <<>>
  THEN [pc |-> "returned", result |-> <<"return", resp_json(resp["text"])[1]>>,
        backoff |-> backoff, slept |-> <<>>]
  ELSE IF json_error_is_request_exception
  THEN OnRequestException("JSONDecodeError", attempt, backoff, max_retries)
  ELSE [pc |-> "raised", result |-> <<"raise", "ValueError">>,
        backoff |-> backoff, slept |-> <<>>]

(***************************************************************************)
(* src/cache.py: the cache files                                           *)
(***************************************************************************)
\* A file is absent, corrupt (truncated by a crash while it was written) or
\* holds what a json.dump wrote.
AbsentFile  == [st |-> "absent"]
CorruptFile == [st |-> "corrupt"]
JsonFile(data) == [st |-> "ok", data |-> data]

\* json.dump and json.load.  A JSON document is a tree: null, a string, a
\* number, an array, an object (its members in the order written).  The
\* values the program dumps are str or None at the leaves, an int in
\* meta.json, lists, and dicts with str keys.
json_dump_leaf(v) == IF v = None THEN <<"null">> ELSE <<"string", v>>

\* The mutant of json_load_leaf: null is read back as the empty string.
JsonLoadNullAsEmpty(j) == IF j[1] = "null" THEN "" ELSE j[2]

json_load_leaf(j) == IF j[1] = "null" THEN None ELSE j[2]

\* a dict whose values are leaves (a record) as an object
json_dump_flat(d) == [f \in DOMAIN d |-> json_dump_leaf(d[f])]
json_load_flat(o) == [f \in DOMAIN o |-> json_load_leaf(o[f])]

\* issues.json: the list of flat issue dicts
json_dump_issues(issues) == [i \in 1..Len(issues) |-> json_dump_flat(issues[i])]
json_load_issues(doc) == [i \in 1..Len(doc) |-> json_load_flat(doc[i])]

\* one change-history entry: author, created, items (a list of flat dicts)
json_dump_entry(e) ==
  [author  |-> json_dump_leaf(e["author"]),
   created |-> json_dump_leaf(e["created"]),
   items   |-> [n \in 1..Len(e["items"]) |-> json_dump_flat(e["items"][n])]]
json_load_entry(o) ==
  [author  |-> json_load_leaf(o["author"]),
   created |-> json_load_leaf(o["created"]),
   items   |-> [n \in 1..Len(o["items"]) |-> json_load_flat(o["items"][n])]]

\* changelogs.json: {issue key: [entry, ...]}
json_dump_changelogs(changelogs) ==
  [d \in 1..Len(changelogs) |->
     <<changelogs[d][1],
       [e \in 1..Len(changelogs[d][2]) |-> json_dump_entry(changelogs[d][2][e])]>>]
json_load_changelogs(doc) ==
  [d \in 1..Len(doc) |->
     <<doc[d][1], [e \in 1..Len(doc[d][2]) |-> json_load_entry(doc[d][2][e])]>>]

\* meta.json: two strings and two counts
json_dump_meta(meta) ==
  [last_sync       |-> json_dump_leaf(meta["last_sync"]),
   config_hash     |-> json_dump_leaf(meta["config_hash"]),
   issue_count     |-> <<"number", meta["issue_count"]>>,
   changelog_count |-> <<"number", meta["changelog_count"]>>]
json_load_meta(doc) ==
  [last_sync       |-> json_load_leaf(doc["last_sync"]),
   config_hash     |-> json_load_leaf(doc["config_hash"]),
   issue_count     |-> doc["issue_count"][2],
   changelog_count |-> doc["changelog_count"][2]]

PyStr(v) == IF v = None THEN "None" ELSE v

\* hashlib.md5(key.encode()).hexdigest()[:8], taken to be collision free
md5_8(x) == "#" \o x

\* _config_hash (lines 26-29)
_config_hash(cfg) ==
  md5_8(cfg["jira_base_url"] \o "|" \o cfg["jira_project_keys"] \o "|"
        \o cfg["backfill_from"] \o "|" \o PyStr(cfg["jira_jql_override"]))

\* load_cache (lines 32-63) on the three files: what it returns ("ok" with the
\* files' content, "none" for (None, None, None), "raise" for the exception
\* of json.load on a corrupt file) and whether it called _clear_cache.
load_cache(cfg, meta, issues, changelogs) ==
  IF meta["st"] = "absent"
  THEN [result |-> "none", clear |-> FALSE]
  ELSE IF meta["st"] = "corrupt"
  THEN [result |-> "raise", clear |-> FALSE]
  ELSE IF json_load_meta(meta["data"])["config_hash"] # _config_hash(cfg)
  THEN [result |-> "none", clear |-> TRUE]
  ELSE IF issues["st"] = "absent" \/ changelogs["st"] = "absent"
  THEN [result |-> "none", clear |-> FALSE]
  ELSE IF issues["st"] = "corrupt" \/ changelogs["st"] = "corrupt"
  THEN [result |-> "raise", clear |-> FALSE]
  ELSE [result |-> "ok", clear |-> FALSE]

\* the meta dict of save_cache (lines 76-81)
MetaOf(cfg, t, issues, changelogs) ==
  [last_sync       |-> IsoStr(t),
   config_hash     |-> _config_hash(cfg),
   issue_count     |-> Len(issues),
   changelog_count |-> Len(changelogs)]

(***************************************************************************)
(* src/sheets_writer.py: the movement_events tab                           *)
(***************************************************************************)
\* MOVEMENT_COLUMNS as the header row
HeaderRow ==
  [event_id |-> "event_id", issue_key |-> "issue_key", created |-> "created",
   from_status |-> "from_status", to_status |-> "to_status",
   changed_at |-> "changed_at", changed_by |-> "changed_by",
   assignee |-> "assignee", current_status |-> "current_status"]

\* _ensure_tabs (lines 84-105): a missing tab is created with its header
_ensure_tabs(sh) ==
  IF sh["exists"] THEN sh ELSE [exists |-> TRUE, rows |-> <<HeaderRow>>]

\* The mutant of _upsert_movement_events: a row whose event_id is derived
\* again is overwritten with the new values.
UpsertOverwriting(sh, new_events) ==
  LET existing_data == sh["rows"]
      existing_ids  == IF Len(existing_data) > 1
                       THEN {existing_data[i]["event_id"] : i \in 2..Len(existing_data)}
                       ELSE {}
      to_append     == SelectSeq(new_events,
                                 LAMBDA e : e["event_id"] \notin existing_ids)
      latest(id)    == LET same == SelectSeq(new_events, LAMBDA e : e["event_id"] = id)
                       IN same[Len(same)]
  IN [sh EXCEPT !["rows"] =
        [i \in 1..Len(existing_data) |->
           IF i > 1 /\ \E e \in Range(new_events) :
                         e["event_id"] = existing_data[i]["event_id"]
           THEN latest(existing_data[i]["event_id"])
           ELSE existing_data[i]]
        \o to_append]

\* _upsert_movement_events (lines 114-135)
_upsert_movement_events(sh, new_events) ==
  LET existing_data == sh["rows"]
      existing_ids  == IF Len(existing_data) > 1
                       THEN {existing_data[i]["event_id"] : i \in 2..Len(existing_data)}
                       ELSE {}
      to_append     == SelectSeq(new_events,
                                 LAMBDA e : e["event_id"] \notin existing_ids)
  IN [sh EXCEPT !["rows"] = existing_data \o to_append]

(***************************************************************************)
(* src/status_matrix.py                                                    *)
(* An instant is a number of ticks of two days (so that round(days, 2)     *)
(* changes nothing); a timestamp is the ISO string IsoStr(t) of an         *)
(* instant, or the empty string.  All timestamps carry the same UTC        *)
(* offset: their order as strings is their order in time.                  *)
(***************************************************************************)
MaxStamp == 2   \* the latest timestamp of an event

\* None where a datetime is expected
NoDt == 0 - 1

STATUSES ==
  <<"CUSTOMER SUBMITTED", "PENDING INITIAL REVIEW", "REVIEWING",
    "FURTHER INFO REQUESTED", "PREPARING WP", "PENDING WP REVIEW",
    "REVIEWING WP", "PREPARING ACCOUNTS", "PENDING AC REVIEW",
    "ACCOUNTS READY", "SUBMITTED FOR SIGNATURE", "ACCOUNTS SIGNED",
    "ACCOUNTS FILED", "CT600 FILED", "DONE">>

\* str.upper() on the status names in use
Upper(s) ==
  CASE s = "Reviewing" -> "REVIEWING"
    [] s = "Done"      -> "DONE"
    [] s = "Backlog"   -> "BACKLOG"
    [] OTHER           -> s

STATUS_SET == {Upper(STATUSES[i]) : i \in 1..Len(STATUSES)}

\* a value that is not a timestamp; as a string it follows every timestamp
\* (an ISO timestamp starts with a digit)
BadStamp == "n/a"

\* _parse_dt (lines 40-50): None for an empty or unreadable value, else the
\* instant named
_parse_dt(s) ==
  IF s = "" \/ s = None \/ s = BadStamp THEN NoDt
  ELSE CHOOSE t \in 0..(MaxStamp + 1) : IsoStr(t) = s

\* the place of a value of changed_at in the order of strings
StampRank(s) ==
  IF s = "" \/ s = None THEN 0 - 1
  ELSE IF s = BadStamp THEN MaxStamp + 2
  ELSE _parse_dt(s)

\* The mutant of _days: the difference is not clamped.
DaysUnclamped(start, end) == (end - start) * 2

\* _days (lines 53-54)
_days(start, end) == IF end - start > 0 THEN (end - start) * 2 ELSE 0

\* list.sort(key=changed_at) (line 76): stable, by the timestamp string
RECURSIVE SortedByChangedAt(_)
SortedByChangedAt(evs) ==
  IF evs = <<>> THEN <<>>
  ELSE LET n     == Len(evs)
           front == SortedByChangedAt(SubSeq(evs, 1, n - 1))
           k     == Cardinality({i \in 1..Len(front) :
                       StampRank(front[i]["changed_at"])
                         <= StampRank(evs[n]["changed_at"])})
       IN SubSeq(front, 1, k) \o <<evs[n]>> \o SubSeq(front, k + 1, Len(front))

\* the keys of issue_events (lines 73-74), in insertion order
RECURSIVE IssueEventsKeys(_)
IssueEventsKeys(events) ==
  IF events = <<>> THEN <<>>
  ELSE LET front == IssueEventsKeys(SubSeq(events, 1, Len(events) - 1))
           k     == events[Len(events)]["issue_key"]
       IN IF k \in Range(front) THEN front ELSE Append(front, k)

\* issue_events[key] after the sort (lines 72-76)
issue_events(events, key) ==
  SortedByChangedAt(SelectSeq(events, LAMBDA e : e["issue_key"] = key))

\* issue_map.get(key, {}).get(field, ""), and (... .get(field) or "")
IssueGet(issues, key, field) ==
  IF issue_map_has(issues, key)
  THEN PyOr(issue_map_get(issues, key)[field], "")
  ELSE ""

\* The mutant of SpanExit: the span ends at the event that follows.
SpanExitAtNextEvent(evs, i, current_status, run_time) ==
  LET to_s == Upper(PyOr(evs[i]["to_status"], ""))
      next == IF i + 1 <= Len(evs) THEN _parse_dt(evs[i + 1]["changed_at"])
              ELSE NoDt
  IN IF next # NoDt THEN next ELSE run_time

\* the exit of the span that event i opens (lines 98-115)
SpanExit(evs, i, current_status, run_time) ==
  LET to_s  == Upper(PyOr(evs[i]["to_status"], ""))
      later == {j \in (i + 1)..Len(evs) :
                  Upper(PyOr(evs[j]["from_status"], "")) = to_s}
      first == CHOOSE j \in later : \A j2 \in later : j <= j2
      found == IF later = {} THEN NoDt ELSE _parse_dt(evs[first]["changed_at"])
      next  == IF i + 1 <= Len(evs) THEN _parse_dt(evs[i + 1]["changed_at"])
               ELSE NoDt
  IN IF found # NoDt THEN found
     ELSE IF current_status = to_s THEN run_time
     ELSE IF next # NoDt THEN next
     ELSE run_time

\* the rows of the spans of one issue (lines 89-126), from event i on
RECURSIVE SpanRows(_, _, _, _, _)
SpanRows(issue_key, evs, i, current_status, run_time) ==
  IF i > Len(evs) THEN <<>>
  ELSE LET to_s    == Upper(PyOr(evs[i]["to_status"], ""))
           entered == _parse_dt(evs[i]["changed_at"])
           exited  == SpanExit(evs, i, current_status, run_time)
           row     == [issue_key      |-> issue_key,
                       status         |-> to_s,
                       entered_at     |-> IsoStr(entered),
                       exited_at      |-> IsoStr(exited),
                       days_in_status |-> _days(entered, exited)]
       IN (IF to_s \in STATUS_SET /\ entered # NoDt THEN <<row>> ELSE <<>>)
          \o SpanRows(issue_key, evs, i + 1, current_status, run_time)

\* The mutant of FirstStatusRow: the status the first event leaves is not
\* looked up in STATUS_SET.
FirstStatusRowAnyStatus(issue_key, evs, issues) ==
  IF evs = <<>> THEN <<>>
  ELSE LET from_s        == Upper(PyOr(evs[1]["from_status"], ""))
           created       == _parse_dt(IssueGet(issues, issue_key, "created"))
           first_entered == _parse_dt(evs[1]["changed_at"])
       IN IF created # NoDt /\ first_entered # NoDt
          THEN <<[issue_key      |-> issue_key,
                  status         |-> from_s,
                  entered_at     |-> IsoStr(created),
                  exited_at      |-> IsoStr(first_entered),
                  days_in_status |-> _days(created, first_entered)]>>
          ELSE <<>>

\* the row of the status the issue was created in (lines 128-143)
FirstStatusRow(issue_key, evs, issues) ==
  IF evs = <<>> THEN <<>>
  ELSE LET from_s        == Upper(PyOr(evs[1]["from_status"], ""))
           created       == _parse_dt(IssueGet(issues, issue_key, "created"))
           first_entered == _parse_dt(evs[1]["changed_at"])
       IN IF from_s \in STATUS_SET /\ created # NoDt /\ first_entered # NoDt
          THEN <<[issue_key      |-> issue_key,
                  status         |-> from_s,
                  entered_at     |-> IsoStr(created),
                  exited_at      |-> IsoStr(first_entered),
                  days_in_status |-> _days(created, first_entered)]>>
          ELSE <<>>

\* long_rows (lines 79-143): issue after issue, in the order of issue_events
RECURSIVE LongRows(_, _, _, _)
LongRows(keys, events, issues, run_time) ==
  IF keys = <<>> THEN <<>>
  ELSE LET key == Head(keys)
           evs == issue_events(events, key)
       IN SpanRows(key, evs, 1, Upper(IssueGet(issues, key, "status")), run_time)
          \o FirstStatusRow(key, evs, issues)
          \o LongRows(Tail(keys), events, issues, run_time)

\* sorted(long_rows, key=(issue_key, entered_at)) (line 196): stable
KeyRank(k) == IF k = "X-1" THEN 1 ELSE 2

LongRowLeq(a, b) ==
  \/ KeyRank(a["issue_key"]) < KeyRank(b["issue_key"])
  \/ /\ a["issue_key"] = b["issue_key"]
     /\ _parse_dt(a["entered_at"]) <= _parse_dt(b["entered_at"])

RECURSIVE SortedLongRows(_)
SortedLongRows(rows) ==
  IF rows = <<>> THEN <<>>
  ELSE LET n     == Len(rows)
           front == SortedLongRows(SubSeq(rows, 1, n - 1))
           k     == Cardinality({i \in 1..Len(front) : LongRowLeq(front[i], rows[n])})
       IN SubSeq(front, 1, k) \o <<rows[n]>> \o SubSeq(front, k + 1, Len(front))

\* totals[(key, status)] (lines 147-149)
RECURSIVE Totals(_, _, _)
Totals(long_rows, key, status) ==
  IF long_rows = <<>> THEN 0
  ELSE (IF Head(long_rows)["issue_key"] = key /\ Head(long_rows)["status"] = status
        THEN Head(long_rows)["days_in_status"] ELSE 0)
       + Totals(Tail(long_rows), key, status)

RECURSIVE SumSeq(_)
SumSeq(s) == IF s = <<>> THEN 0 ELSE Head(s) + SumSeq(Tail(s))

\* The mutant of TopStatus: the last status that reaches the maximum.
TopStatusLast(status_days) ==
  STATUSES[CHOOSE i \in 1..Len(STATUSES) :
             /\ \A j \in 1..Len(STATUSES) : status_days[j] <= status_days[i]
             /\ \A j \in (i + 1)..Len(STATUSES) : status_days[j] < status_days[i]]

\* max(status_days, key=lambda s: status_days[s]) (line 183): the first
\* key, in the dict's order, whose value no other exceeds
TopStatus(status_days) ==
  STATUSES[CHOOSE i \in 1..Len(STATUSES) :
             /\ \A j \in 1..Len(STATUSES) : status_days[j] <= status_days[i]
             /\ \A j \in 1..(i - 1) : status_days[j] < status_days[i]]

\* one row of the matrix (lines 164-193); the due-date columns are left out
MatrixRow(key, long_rows, issues) ==
  LET status_days == [i \in 1..Len(STATUSES) |->
                        Totals(long_rows, key, Upper(STATUSES[i]))]
      top_status  == TopStatus(status_days)
  IN [issue_key          |-> key,
      status_days        |-> status_days,
      total_days         |-> SumSeq(status_days),
      current_status     |-> Upper(IssueGet(issues, key, "status")),
      current_assignee   |-> IssueGet(issues, key, "assignee"),
      top_stuck_status   |-> top_status,
      max_days_in_status |-> status_days[CHOOSE i \in 1..Len(STATUSES) :
                                           STATUSES[i] = top_status]]

\* all_keys (line 162): sorted
AllKeys(events, issues) ==
  SelectSeq(<<"X-1", "X-2">>,
            LAMBDA k : k \in Range(IssueEventsKeys(events))
                         \cup {issues[i]["key"] : i \in 1..Len(issues)})

LongHeader ==
  [issue_key |-> "issue_key", status |-> "status", entered_at |-> "entered_at",
   exited_at |-> "exited_at", days_in_status |-> "days_in_status"]

MatrixHeader ==
  [issue_key |-> "issue_key", status_days |-> STATUSES,
   total_days |-> "total_days", current_status |-> "current_status",
   current_assignee |-> "current_assignee",
   top_stuck_status |-> "top_stuck_status",
   max_days_in_status |-> "max_days_in_status"]

\* compute_status_durations (lines 57-205): the two tables with their headers
compute_status_durations(events, issues, run_time) ==
  LET long_rows == LongRows(IssueEventsKeys(events), events, issues, run_time)
      all_keys  == AllKeys(events, issues)
  IN [long   |-> <<LongHeader>> \o SortedLongRows(long_rows),
      matrix |-> <<MatrixHeader>>
                 \o [n \in 1..Len(all_keys) |->
                       MatrixRow(all_keys[n], long_rows, issues)]]

(***************************************************************************)
(* src/metrics.py: the cycle-time table                                    *)
(* A number of hours is an integer count of thousandths of an hour, so     *)
(* that round(x, 2) has something to round.  A number that may be None is *)
(* a sequence: <<>> for None, <<h>> for h.                                 *)
(* _parse_dt of metrics.py (lines 29-36) reads the timestamps in use as    *)
(* _parse_dt of status_matrix.py does.                                     *)
(***************************************************************************)
\* str.lower() on the status names in use
Lower(s) ==
  CASE s = "Reviewing"   -> "reviewing"
    [] s = "In Progress" -> "in progress"
    [] s = "Done"        -> "done"
    [] s = "Closed"      -> "closed"
    [] s = "Overdue Review" -> "overdue review"
    [] s = "Submitted for Signature" -> "submitted for signature"
    [] OTHER             -> s

\* cfg.in_progress_statuses and cfg.done_statuses (config.py:56-57)
in_progress_set == {"in progress"}
done_set == {"done", "closed"}

\* timedelta.total_seconds() / 3600 between two instants (a tick is two
\* days), in thousandths of an hour
Hours(from, to) == (to - from) * 48000

\* the first event of evs, from event i on, that has a readable timestamp
\* and leads into one of the statuses (lines 99-106): its instant, or NoDt
RECURSIVE FirstInto(_, _, _)
FirstInto(evs, i, statuses) ==
  IF i > Len(evs) THEN NoDt
  ELSE IF /\ _parse_dt(evs[i]["changed_at"]) # NoDt
          /\ Lower(evs[i]["to_status"]) \in statuses
       THEN _parse_dt(evs[i]["changed_at"])
       ELSE FirstInto(evs, i + 1, statuses)

\* The mutant of CycleEntry: the cycle starts at the creation of the issue.
CycleEntryFromCreation(key, evs, issues) ==
  LET first_done == FirstInto(evs, 1, done_set)
      created_dt == _parse_dt(IssueGet(issues, key, "created"))
      lead       == IF created_dt # NoDt THEN <<Hours(created_dt, first_done)>>
                    ELSE <<>>
  IN IF first_done = NoDt THEN <<>>
     ELSE <<[issue_key |-> key, assignee |-> IssueGet(issues, key, "assignee"),
             cycle_hours |-> lead, lead_hours |-> lead]>>

\* the entry of one issue in cycle_data (lines 93-121): none without a
\* transition into a done status
CycleEntry(key, evs, issues) ==
  LET first_in_progress == FirstInto(evs, 1, in_progress_set)
      first_done        == FirstInto(evs, 1, done_set)
      created_dt        == _parse_dt(IssueGet(issues, key, "created"))
  IN IF first_done = NoDt THEN <<>>
     ELSE <<[issue_key   |-> key,
             assignee    |-> IssueGet(issues, key, "assignee"),
             cycle_hours |-> IF first_in_progress # NoDt
                             THEN <<Hours(first_in_progress, first_done)>>
                             ELSE <<>>,
             lead_hours  |-> IF created_dt # NoDt
                             THEN <<Hours(created_dt, first_done)>>
                             ELSE <<>>]>>

\* cycle_data (lines 92-121), issue after issue in the order of issue_events
RECURSIVE CycleData(_, _, _)
CycleData(keys, events, issues) ==
  IF keys = <<>> THEN <<>>
  ELSE CycleEntry(Head(keys), issue_events(events, Head(keys)), issues)
       \o CycleData(Tail(keys), events, issues)

\* sorted(data) for numbers
RECURSIVE SortedNumbers(_)
SortedNumbers(data) ==
  IF data = <<>> THEN <<>>
  ELSE LET n     == Len(data)
           front == SortedNumbers(SubSeq(data, 1, n - 1))
           k     == Cardinality({i \in 1..Len(front) : front[i] <= data[n]})
       IN SubSeq(front, 1, k) \o <<data[n]>> \o SubSeq(front, k + 1, Len(front))

\* sorted(data, reverse=True) for numbers
RECURSIVE SortedNumbersDescending(_)
SortedNumbersDescending(data) ==
  IF data = <<>> THEN <<>>
  ELSE LET n     == Len(data)
           front == SortedNumbersDescending(SubSeq(data, 1, n - 1))
           k     == Cardinality({i \in 1..Len(front) : front[i] >= data[n]})
       IN SubSeq(front, 1, k) \o <<data[n]>> \o SubSeq(front, k + 1, Len(front))

\* round(x, 2) of a number given in thousandths: the nearest hundredth, a
\* tie going to the even hundredth
Round2(x) ==
  LET r == x % 10
  IN IF r < 5 THEN x - r
     ELSE IF r > 5 THEN x - r + 10
     ELSE IF ((x - r) \div 10) % 2 = 0 THEN x - r ELSE x - r + 10

\* The mutant of _percentile: the samples are ranked from the largest down.
PercentileDescending(data, p) ==
  IF data = <<>> THEN 0
  ELSE LET s   == SortedNumbersDescending(data)
           idx == (Len(s) * p) \div 100
       IN Round2(s[(IF idx < Len(s) - 1 THEN idx ELSE Len(s) - 1) + 1])

\* _percentile (lines 123-128)
_percentile(data, p) ==
  IF data = <<>> THEN 0
  ELSE LET s   == SortedNumbers(data)
           idx == (Len(s) * p) \div 100
       IN Round2(s[(IF idx < Len(s) - 1 THEN idx ELSE Len(s) - 1) + 1])

\* the values that are not None, in the order of items
RECURSIVE NotNone(_, _)
NotNone(items, field) ==
  IF items = <<>> THEN <<>>
  ELSE Head(items)[field] \o NotNone(Tail(items), field)

\* _summarise (lines 130-142) for the row "Overall"; the two averages are
\* left out
_summarise(items, group_val) ==
  [group       |-> group_val,
   count       |-> Len(items),
   cycle_p50_h |-> _percentile(NotNone(items, "cycle_hours"), 50),
   cycle_p90_h |-> _percentile(NotNone(items, "cycle_hours"), 90),
   lead_p50_h  |-> _percentile(NotNone(items, "lead_hours"), 50),
   lead_p90_h  |-> _percentile(NotNone(items, "lead_hours"), 90)]

\* compute_metrics, the cycle-time part (lines 60-65, 92-149): cycle_data
\* and the row "Overall" of the table
cycle_table(events, issues) ==
  LET cycle_data == CycleData(IssueEventsKeys(events), events, issues)
  IN [data |-> cycle_data, overall |-> _summarise(cycle_data, "Overall")]

(***************************************************************************)
(* src/metrics.py: the seven tables of compute_metrics                     *)
(* A table is a sequence of rows, the header first.  The averages          *)
(* (statistics.mean) are left out of the rows.  A cell that holds a number *)
(* or nothing is <<n>> or <<>>.  The issues of the model have no team.     *)
(***************************************************************************)
EXCLUDE_FROM_AGING == {"due", "due date", "done"}
SUBMITTED_STATUS == "submitted for signature"

\* the characters of the lower-case strings in use
Chars(s) ==
  CASE s = "in progress" -> <<"i", "n", " ", "p", "r", "o", "g", "r", "e", "s", "s">>
    [] s = "done" -> <<"d", "o", "n", "e">>
    [] s = "closed" -> <<"c", "l", "o", "s", "e", "d">>
    [] s = "overdue review" -> <<"o", "v", "e", "r", "d", "u", "e", " ", "r", "e", "v", "i", "e", "w">>
    [] s = "submitted for signature" -> <<"s", "u", "b", "m", "i", "t", "t", "e", "d", " ", "f", "o", "r", " ", "s", "i", "g", "n", "a", "t", "u", "r", "e">>
    [] s = "reviewing" -> <<"r", "e", "v", "i", "e", "w", "i", "n", "g">>
    [] s = "due" -> <<"d", "u", "e">>
    [] s = "due date" -> <<"d", "u", "e", " ", "d", "a", "t", "e">>
    [] OTHER -> <<>>

\* `a in b` for two strings (line 183)
IsSubstring(a, b) ==
  \E i \in 1..(Len(Chars(b)) - Len(Chars(a)) + 1) :
    SubSeq(Chars(b), i, i + Len(Chars(a)) - 1) = Chars(a)

\* _iso_week (lines 39-40): "%Y-W%W" of an instant; instant 0 is Monday
\* 2024-01-01 and a tick is two days
_iso_week(t) == "2024-W0" \o ToString((2 * t) \div 7 + 1)

\* sorted(weeks)
SortedWeeks(S) ==
  SelectSeq([n \in 1..9 |-> "2024-W0" \o ToString(n)], LAMBDA w : w \in S)

\* the conditions of the three weekly counters (lines 71, 83, 217)
Selected(kind, ev) ==
  CASE kind = "done"      -> Lower(ev["to_status"]) \in done_set
    [] kind = "submitted" -> Lower(ev["to_status"]) = SUBMITTED_STATUS
    [] kind = "reopen"    -> /\ Lower(ev["from_status"]) \in done_set
                             /\ Lower(ev["to_status"]) \notin done_set

\* the events a weekly counter counts: selected, with a readable timestamp
Counted(events, kind) ==
  {i \in 1..Len(events) :
     Selected(kind, events[i]) /\ _parse_dt(events[i]["changed_at"]) # NoDt}

\* the keys of a weekly counter, and its value for a week (0 when absent)
WeeksOf(events, kind) ==
  {_iso_week(_parse_dt(events[i]["changed_at"])) : i \in Counted(events, kind)}

WeekCount(events, kind, w) ==
  Cardinality({i \in Counted(events, kind) :
                 _iso_week(_parse_dt(events[i]["changed_at"])) = w})

\* a weekly table (lines 68-78, 80-90)
WeeklyRows(events, kind) ==
  LET weeks == SortedWeeks(WeeksOf(events, kind))
  IN [n \in 1..Len(weeks) |-> <<weeks[n], WeekCount(events, kind, weeks[n])>>]

throughput_rows(events) == <<<<"week", "tickets_done">>>> \o WeeklyRows(events, "done")

submitted_rows(events) ==
  <<<<"week", "submitted_for_signature">>>> \o WeeklyRows(events, "submitted")

\* cycle_header (lines 144-148)
cycle_header ==
  [group |-> "group", count |-> "count",
   cycle_p50_h |-> "cycle_p50_h", cycle_p90_h |-> "cycle_p90_h",
   lead_p50_h |-> "lead_p50_h", lead_p90_h |-> "lead_p90_h"]

\* sorted(by_assignee.items()) and sorted(by_team.items()): the group names
SortedGroups(S) ==
  SelectSeq(<<"(no team)", "(unassigned)", "ann", "bob">>, LAMBDA g : g \in S)

AssigneeOf(d) == PyOr(d["assignee"], "(unassigned)")
TeamOf(d) == PyOr("", "(no team)")

\* cycle_rows (lines 149-160)
cycle_rows(cycle_data) ==
  LET assignees == SortedGroups({AssigneeOf(cycle_data[i]) : i \in 1..Len(cycle_data)})
      teams     == SortedGroups({TeamOf(cycle_data[i]) : i \in 1..Len(cycle_data)})
  IN <<cycle_header, _summarise(cycle_data, "Overall")>>
     \o [n \in 1..Len(assignees) |->
           _summarise(SelectSeq(cycle_data, LAMBDA d : AssigneeOf(d) = assignees[n]),
                      "Assignee: " \o assignees[n])]
     \o [n \in 1..Len(teams) |->
           _summarise(SelectSeq(cycle_data, LAMBDA d : TeamOf(d) = teams[n]),
                      "Team: " \o teams[n])]

\* the keys of wip (lines 163-167): the statuses that are not done, in the
\* order of their first occurrence
RECURSIVE WipKeys(_)
WipKeys(issues) ==
  IF issues = <<>> THEN <<>>
  ELSE LET front  == WipKeys(SubSeq(issues, 1, Len(issues) - 1))
           status == issues[Len(issues)]["status"]
       IN IF Lower(status) \in done_set \/ status \in Range(front)
          THEN front ELSE Append(front, status)

WipCount(issues, status) ==
  Cardinality({i \in 1..Len(issues) : issues[i]["status"] = status})

\* sorted(wip.items(), key=lambda x: -x[1]) (line 170): stable
RECURSIVE SortedByCount(_, _)
SortedByCount(keys, issues) ==
  IF keys = <<>> THEN <<>>
  ELSE LET n     == Len(keys)
           front == SortedByCount(SubSeq(keys, 1, n - 1), issues)
           k     == Cardinality({i \in 1..Len(front) :
                       WipCount(issues, front[i]) >= WipCount(issues, keys[n])})
       IN SubSeq(front, 1, k) \o <<keys[n]>> \o SubSeq(front, k + 1, Len(front))

\* wip_rows (lines 162-171)
wip_rows(issues) ==
  LET keys == SortedByCount(WipKeys(issues), issues)
  IN <<<<"status", "wip_count">>>>
     \o [n \in 1..Len(keys) |-> <<keys[n], WipCount(issues, keys[n])>>]

\* The mutant of ExcludedFromAging: the status is compared as a whole.
ExcludedWhenEqual(current_lower) == current_lower \in EXCLUDE_FROM_AGING

\* any(excl in current_lower for excl in EXCLUDE_FROM_AGING) (line 183)
ExcludedFromAging(current_lower) ==
  \E excl \in EXCLUDE_FROM_AGING : IsSubstring(excl, current_lower)

\* sorted(evs, key=changed_at, reverse=True) (line 187): stable
RECURSIVE SortedByChangedAtReverse(_)
SortedByChangedAtReverse(evs) ==
  IF evs = <<>> THEN <<>>
  ELSE LET n     == Len(evs)
           front == SortedByChangedAtReverse(SubSeq(evs, 1, n - 1))
           k     == Cardinality({i \in 1..Len(front) :
                       StampRank(front[i]["changed_at"])
                         >= StampRank(evs[n]["changed_at"])})
       IN SubSeq(front, 1, k) \o <<evs[n]>> \o SubSeq(front, k + 1, Len(front))

\* entered (lines 186-193): the timestamp of the latest event into the
\* current status, else the creation, else now
AgingEntered(issue, events, run_time) ==
  LET current_lower == Lower(issue["status"])
      evs     == SortedByChangedAtReverse(issue_events(events, issue["key"]))
      into    == {i \in 1..Len(evs) : Lower(evs[i]["to_status"]) = current_lower}
      first   == CHOOSE i \in into : \A j \in into : i <= j
      entered == IF into = {} THEN NoDt ELSE _parse_dt(evs[first]["changed_at"])
      created == _parse_dt(PyOr(issue["created"], ""))
  IN IF entered # NoDt THEN entered
     ELSE IF created # NoDt THEN created
     ELSE run_time

\* the bucket of a number of days (lines 196-203), "" when not aging
Bucket(days) ==
  IF days >= 30 THEN ">30d"
  ELSE IF days >= 10 THEN ">10d"
  ELSE IF days >= 5 THEN ">5d"
  ELSE ""

\* the aging row of one issue (lines 176-212), if it has one
AgingRow(issue, events, run_time) ==
  LET current_lower == Lower(issue["status"])
      days == (run_time - AgingEntered(issue, events, run_time)) * 2
  IN IF current_lower \in done_set THEN <<>>
     ELSE IF ExcludedFromAging(current_lower) THEN <<>>
     ELSE IF Bucket(days) = "" THEN <<>>
     ELSE << <<issue["key"], issue["status"], PyOr(issue["assignee"], ""), "",
               days, Bucket(days)>> >>

RECURSIVE AgingRows(_, _, _)
AgingRows(issues, events, run_time) ==
  IF issues = <<>> THEN <<>>
  ELSE AgingRow(Head(issues), events, run_time)
       \o AgingRows(Tail(issues), events, run_time)

\* aging_rows (lines 173-212)
aging_rows(events, issues, run_time) ==
  << <<"issue_key", "current_status", "assignee", "team_field",
       "days_in_status", "bucket">> >>
  \o AgingRows(issues, events, run_time)

\* round(r / done * 100, 1) (line 227), in tenths of a per cent
RatePct(r, done) == (2000 * r + done) \div (2 * done)

\* reopen_rows (lines 214-228)
reopen_rows(events) ==
  LET all_weeks == SortedWeeks(WeeksOf(events, "done") \cup WeeksOf(events, "reopen"))
  IN << <<"week", "tickets_done", "reopens", "reopen_rate_pct">> >>
     \o [n \in 1..Len(all_weeks) |->
           LET done == WeekCount(events, "done", all_weeks[n])
               r    == WeekCount(events, "reopen", all_weeks[n])
           IN <<all_weeks[n], done, r,
                IF done # 0 THEN <<RatePct(r, done)>> ELSE <<>> >>]

\* the hours that event i of an issue's sorted events attributes to the
\* status it leads into (lines 234-242): <<hours>>, or <<>> for none
TisHours(evs, i, run_time) ==
  LET enter == _parse_dt(evs[i]["changed_at"])
      leave == IF i + 1 <= Len(evs) THEN _parse_dt(evs[i + 1]["changed_at"])
               ELSE run_time
  IN IF enter # NoDt /\ leave # NoDt /\ leave > enter
     THEN <<Hours(enter, leave)>> ELSE <<>>

\* status_time[status] (lines 231-242): from one issue's events from event
\* i on, and from all issues in the order of issue_events
RECURSIVE TisOfIssue(_, _, _, _)
TisOfIssue(evs, i, status, run_time) ==
  IF i > Len(evs) THEN <<>>
  ELSE (IF evs[i]["to_status"] = status THEN TisHours(evs, i, run_time) ELSE <<>>)
       \o TisOfIssue(evs, i + 1, status, run_time)

RECURSIVE StatusTime(_, _, _, _)
StatusTime(keys, events, status, run_time) ==
  IF keys = <<>> THEN <<>>
  ELSE TisOfIssue(issue_events(events, Head(keys)), 1, status, run_time)
       \o StatusTime(Tail(keys), events, status, run_time)

\* sorted(status_time.items()) (line 245): the status names in order
SortedStatuses(S) ==
  SelectSeq(<<"Closed", "Done", "In Progress", "Overdue Review", "Reviewing",
              "Submitted for Signature">>, LAMBDA s : s \in S)

\* tis_rows (lines 230-252)
tis_rows(events, run_time) ==
  LET keys     == IssueEventsKeys(events)
      statuses == SortedStatuses({events[i]["to_status"] : i \in
                    {j \in 1..Len(events) :
                       StatusTime(keys, events, events[j]["to_status"], run_time) # <<>>}})
  IN << <<"status", "count", "p50_hours", "p90_hours">> >>
     \o [n \in 1..Len(statuses) |->
           LET hours_list == StatusTime(keys, events, statuses[n], run_time)
           IN <<statuses[n], Len(hours_list),
                _percentile(hours_list, 50), _percentile(hours_list, 90)>>]

\* compute_metrics (lines 52-262); now is the evaluation instant
compute_metrics(events, issues, run_time) ==
  [throughput              |-> throughput_rows(events),
   submitted_for_signature |-> submitted_rows(events),
   cycle_time              |-> cycle_rows(cycle_table(events, issues)["data"]),
   wip                     |-> wip_rows(issues),
   aging_wip               |-> aging_rows(events, issues, run_time),
   reopen_rate             |-> reopen_rows(events),
   time_in_status          |-> tis_rows(events, run_time)]

(***************************************************************************)
(* Inputs of the derivation                                                *)
(***************************************************************************)
MaxItems == 2   \* change-history items in the whole change-history map

PKeys  == {"X-1", "X-2"}
PTimes == {"T1", "T2"}

\* One item of a change-history entry.  Two of the status names hold the
\* separator of raw_id.
PItems ==
  { [field |-> "status",   fromString |-> None,     toString |-> "Done"],
    [field |-> "status",   fromString |-> "Dev|QA", toString |-> "Done"],
    [field |-> "status",   fromString |-> "Dev",    toString |-> "QA|Done"],
    [field |-> "assignee", fromString |-> "Dev",    toString |-> "Done"] }

PSnap(k, st, who) == [key |-> k, status |-> st, created |-> "T0", assignee |-> who]

\* The issue snapshots (one per key): none, one key, both keys in either order.
PIssueLists ==
  { <<>>,
    <<PSnap("X-1", "Done", "ann")>>,
    <<PSnap("X-2", "Dev", "")>>,
    <<PSnap("X-1", "Done", "ann"), PSnap("X-2", "Dev", "")>>,
    <<PSnap("X-2", "Dev", ""), PSnap("X-1", "Done", "ann")>> }

\* the lists of entries that hold exactly m items, no entry empty
RECURSIVE PEntriesWith(_)
PEntriesWith(m) ==
  IF m = 0 THEN {<<>>}
  ELSE UNION { { <<[author |-> "alice", created |-> c, items |-> its]>> \o rest :
                   c \in PTimes, its \in [1..j -> PItems],
                   rest \in PEntriesWith(m - j) } : j \in 1..m }

PChangelogMaps ==
  {<<>>}
  \cup UNION { { << <<k, es>> >> : k \in PKeys, es \in PEntriesWith(m) } :
               m \in 0..MaxItems }
  \cup UNION { { << <<kk[1], es1>>, <<kk[2], es2>> >> :
                   kk \in {x \in PKeys \X PKeys : x[1] # x[2]},
                   es1 \in PEntriesWith(m[1]), es2 \in PEntriesWith(m[2]) } :
               m \in {mm \in (0..MaxItems) \X (0..MaxItems) :
                        mm[1] + mm[2] <= MaxItems} }

\* The second derivation's input: the same input, or the first input with
\* another author, other snapshot fields, or the entries in another position.
PKinds == {"same", "author", "snapshot", "position"}

Reverse(s) == [i \in 1..Len(s) |-> s[Len(s) + 1 - i]]

PerturbIssues(kind, issues) ==
  IF kind = "snapshot"
  THEN [i \in 1..Len(issues) |->
          [issues[i] EXCEPT !["status"] = "Blocked", !["assignee"] = "zed",
                            !["created"] = "T9"]]
  ELSE issues

PerturbChangelogs(kind, changelogs) ==
  CASE kind = "author" ->
         [d \in 1..Len(changelogs) |->
            <<changelogs[d][1],
              [e \in 1..Len(changelogs[d][2]) |->
                 [changelogs[d][2][e] EXCEPT !["author"] = None]]>>]
    [] kind = "position" ->
         Reverse([d \in 1..Len(changelogs) |->
                    <<changelogs[d][1], Reverse(changelogs[d][2])>>])
    [] OTHER -> changelogs

\* the derivation's variables in the specifications of other parts
ParseOff ==
  /\ p_phase = "off"
  /\ p_issues = <<>>
  /\ p_changelogs = <<>>
  /\ p_events = <<>>
  /\ p_kind = "same"
  /\ p_issues2 = <<>>
  /\ p_changelogs2 = <<>>
  /\ p_events2 = <<>>

ParseInit ==
  /\ p_phase = "input"
  /\ p_issues \in PIssueLists
  /\ p_changelogs \in PChangelogMaps
  /\ p_events = <<>>
  /\ p_kind = "same"
  /\ p_issues2 = <<>>
  /\ p_changelogs2 = <<>>
  /\ p_events2 = <<>>

\* events = parse_movement_events(issues, changelogs, cfg)
Parse ==
  /\ p_phase = "input"
  /\ p_phase' = "parsed"
  /\ p_events' = parse_movement_events(p_issues, p_changelogs)
  /\ UNCHANGED <<p_issues, p_changelogs, p_kind, p_issues2, p_changelogs2, p_events2>>
  /\ UNCHANGED <<mergeVars, pipeVars, calcVars, pctVars, getVars>>

\* a second derivation, in another run of the process
Rederive ==
  /\ p_phase = "parsed"
  /\ \E kind \in PKinds :
       /\ p_kind' = kind
       /\ p_issues2' = PerturbIssues(kind, p_issues)
       /\ p_changelogs2' = PerturbChangelogs(kind, p_changelogs)
       /\ p_events2' = parse_movement_events(PerturbIssues(kind, p_issues),
                                             PerturbChangelogs(kind, p_changelogs))
  /\ p_phase' = "rederived"
  /\ UNCHANGED <<p_issues, p_changelogs, p_events>>
  /\ UNCHANGED <<mergeVars, pipeVars, calcVars, pctVars, getVars>>

ParseNext == Parse \/ Rederive


(***************************************************************************)
(* Inputs of the merge                                                     *)
(***************************************************************************)
MaxMergeLen == 2   \* issues in the cached list and in the fetched list

MKeys == {"X-1", "X-2", "X-3"}
MSnapshots == {PSnap(k, st, "") : k \in MKeys, st \in {"Dev", "Done"}}

\* an issue list holds one snapshot per key (the tracker's key is unique)
UniqueKeys(issues) ==
  \A i, j \in 1..Len(issues) : issues[i]["key"] = issues[j]["key"] => i = j

MIssueLists ==
  {l \in UNION {[1..n -> MSnapshots] : n \in 0..MaxMergeLen} : UniqueKeys(l)}

MHistoryA == <<[author |-> "alice", created |-> "T1",
                items |-> <<[field |-> "status", fromString |-> "Dev",
                             toString |-> "Done"]>>]>>
MHistoryB == MHistoryA \o
             <<[author |-> "bob", created |-> "T2",
                items |-> <<[field |-> "status", fromString |-> "Done",
                             toString |-> "Dev"]>>]>>

MChangelogMaps ==
  { <<>>,
    << <<"X-1", MHistoryA>> >>,
    << <<"X-2", MHistoryB>> >>,
    << <<"X-1", MHistoryB>>, <<"X-2", <<>>>> >>,
    << <<"X-3", MHistoryA>>, <<"X-1", MHistoryA>> >> }

MergeOff ==
  /\ m_phase = "off"
  /\ m_cached_issues = <<>>
  /\ m_updated_issues = <<>>
  /\ m_updated_changelogs = <<>>
  /\ m_cached_changelogs = <<>>
  /\ m_merged = <<>>
  /\ m_merged2 = <<>>

MergeInit ==
  /\ m_phase = "input"
  /\ m_cached_issues \in MIssueLists
  /\ m_updated_issues \in MIssueLists
  /\ m_updated_changelogs \in MChangelogMaps
  /\ m_cached_changelogs \in MChangelogMaps
  /\ m_merged = <<>>
  /\ m_merged2 = <<>>

\* issues, changelogs = merge_updated_issues(cached_issues, updated_issues,
\*                                           updated_changelogs, cached_changelogs)
Merge ==
  /\ m_phase = "input"
  /\ m_phase' = "merged"
  /\ m_merged' = merge_updated_issues(m_cached_issues, m_updated_issues,
                                      m_updated_changelogs, m_cached_changelogs)
  /\ UNCHANGED <<m_cached_issues, m_updated_issues, m_updated_changelogs,
                 m_cached_changelogs, m_merged2>>
  /\ UNCHANGED <<parseVars, pipeVars, calcVars, pctVars, getVars>>

\* the same delta merged into the result of the first merge
MergeAgain ==
  /\ m_phase = "merged"
  /\ m_phase' = "merged2"
  /\ m_merged2' = merge_updated_issues(m_merged[1], m_updated_issues,
                                       m_updated_changelogs, m_merged[2])
  /\ UNCHANGED <<m_cached_issues, m_updated_issues, m_updated_changelogs,
                 m_cached_changelogs, m_merged>>
  /\ UNCHANGED <<parseVars, pipeVars, calcVars, pctVars, getVars>>

MergeNext == Merge \/ MergeAgain

(***************************************************************************)
(* The tracker, the configuration and the runs of main()                   *)
(***************************************************************************)
MaxLog == 1   \* entries in the change history of an issue

NoIssue == [exists |-> FALSE, status |-> "", created |-> 0, updated |-> 0, log |-> <<>>]

BackfillDates == {"2025-01-01", "2026-01-01"}

\* the local variables of main() before it has assigned them
RunIdle ==
  [dry_run |-> FALSE, cfg |-> load_config("2026-01-01"),
   load |-> "", cached_issues |-> <<>>, cached_changelogs |-> <<>>,
   last_sync |-> None, loaded_unstamped |-> {}, incremental |-> FALSE,
   updated_issues |-> <<>>, full_issues |-> <<>>,
   issues |-> <<>>, changelogs |-> <<>>, events |-> <<>>]

PipeOff ==
  /\ now = 0
  /\ tracker = [k \in TKeys |-> NoIssue]
  /\ cfgfile = "2026-01-01"
  /\ f_issues = AbsentFile
  /\ f_changelogs = AbsentFile
  /\ f_meta = AbsentFile
  /\ dashboard = FALSE
  /\ sheet = [exists |-> FALSE, rows |-> <<>>]
  /\ unstamped = {}
  /\ pc = "off"
  /\ run = RunIdle

\* before the first run: no cache, no tab, an empty project
PipeInit ==
  /\ now = 0
  /\ tracker = [k \in TKeys |-> NoIssue]
  /\ cfgfile = "2026-01-01"
  /\ f_issues = AbsentFile
  /\ f_changelogs = AbsentFile
  /\ f_meta = AbsentFile
  /\ dashboard = FALSE
  /\ sheet = [exists |-> FALSE, rows |-> <<>>]
  /\ unstamped = {}
  /\ pc = "idle"
  /\ run = RunIdle

envVars  == <<now, tracker, cfgfile>>
diskVars == <<f_issues, f_changelogs, f_meta>>

\* ---- the environment ----
\* A run reads the tracker in its two fetches and the clock when it stamps
\* meta.json, so a change of the tracker or of the clock at any moment of a
\* run is the same change made before the next of these three reads: the
\* environment acts between two runs, between the two fetches, and between
\* the second fetch and the stamp.
EnvMayAct == pc \in {"idle", "fetch_changelogs", "save_meta"}

Tick ==
  /\ EnvMayAct
  /\ now < MaxTime
  /\ now' = now + 1
  /\ UNCHANGED <<tracker, cfgfile, diskVars, dashboard, sheet, unstamped, pc, run>>
  /\ UNCHANGED <<parseVars, mergeVars, calcVars, pctVars, getVars>>

\* a user creates the next issue of the project
CreateIssue ==
  /\ EnvMayAct
  /\ \E i \in 1..Len(TKeySeq) :
       /\ ~tracker[TKeySeq[i]]["exists"]
       /\ \A j \in 1..(i - 1) : tracker[TKeySeq[j]]["exists"]
       /\ tracker' = [tracker EXCEPT ![TKeySeq[i]] =
                        [exists |-> TRUE, status |-> "To Do", created |-> now,
                         updated |-> now, log |-> <<>>]]
  /\ UNCHANGED <<now, cfgfile, diskVars, dashboard, sheet, unstamped, pc, run>>
  /\ UNCHANGED <<parseVars, mergeVars, calcVars, pctVars, getVars>>

\* a user moves an issue to the other status; the tracker records one entry
\* whose items hold the status change, once or (twice = TRUE) two times
Transition ==
  /\ EnvMayAct
  /\ \E k \in TKeys, twice \in BOOLEAN :
       /\ tracker[k]["exists"]
       /\ Len(tracker[k]["log"]) < MaxLog
       /\ LET issue == tracker[k]
              to    == IF issue["status"] = "To Do" THEN "Done" ELSE "To Do"
              item  == [field |-> "status", fromString |-> issue["status"],
                        toString |-> to]
              entry == [author |-> "alice",
                        created |-> ChangedAt(now, Len(issue["log"]) + 1),
                        items |-> IF twice THEN <<item, item>> ELSE <<item>>]
          IN tracker' = [tracker EXCEPT ![k] =
                           [issue EXCEPT !["status"] = to, !["updated"] = now,
                                         !["log"] = Append(issue["log"], entry)]]
  /\ UNCHANGED <<now, cfgfile, diskVars, dashboard, sheet, unstamped, pc, run>>
  /\ UNCHANGED <<parseVars, mergeVars, calcVars, pctVars, getVars>>

\* the operator edits backfill_from in config.yaml between two runs
ConfigChange ==
  /\ pc = "idle"
  /\ \E b \in BackfillDates \ {cfgfile} : cfgfile' = b
  /\ UNCHANGED <<now, tracker, diskVars, dashboard, sheet, unstamped, pc, run>>
  /\ UNCHANGED <<parseVars, mergeVars, calcVars, pctVars, getVars>>

\* ---- main() ----
\* lines 31-44: parse the arguments, load the configuration, load the cache
RunStart ==
  /\ pc = "idle"
  /\ \E full \in BOOLEAN, dry_run \in BOOLEAN :
       LET cfg == load_config(cfgfile)
           lc  == IF ~full /\ ~dry_run
                  THEN load_cache(cfg, f_meta, f_issues, f_changelogs)
                  ELSE [result |-> "skipped", clear |-> FALSE]
       IN /\ IF lc["clear"]
             THEN f_issues' = AbsentFile /\ f_changelogs' = AbsentFile
                  /\ f_meta' = AbsentFile /\ unstamped' = {}
             ELSE UNCHANGED <<diskVars, unstamped>>
          /\ IF lc["result"] = "raise"
             THEN /\ pc' = "idle"
                  /\ run' = [RunIdle EXCEPT !["load"] = "raised"]
             ELSE /\ pc' = "fetch_issues"
                  /\ run' = IF lc["result"] = "ok"
                            THEN [RunIdle EXCEPT
                                    !["dry_run"] = dry_run,
                                    !["cfg"] = cfg, !["load"] = "ok",
                                    !["cached_issues"] = json_load_issues(f_issues["data"]),
                                    !["cached_changelogs"] =
                                       json_load_changelogs(f_changelogs["data"]),
                                    !["last_sync"] =
                                       json_load_meta(f_meta["data"])["last_sync"],
                                    !["loaded_unstamped"] = unstamped]
                            ELSE [RunIdle EXCEPT
                                    !["dry_run"] = dry_run,
                                    !["cfg"] = cfg, !["load"] = lc["result"]]
  /\ UNCHANGED <<envVars, dashboard, sheet>>
  /\ UNCHANGED <<parseVars, mergeVars, calcVars, pctVars, getVars>>

\* lines 46-55: the incremental or the full fetch of the issues
FetchIssues ==
  /\ pc = "fetch_issues"
  /\ LET incremental == run["load"] = "ok" /\ run["last_sync"] # None
                        /\ run["last_sync"] # ""
         cfg == IF incremental
                THEN set_incremental_since(run["cfg"], run["last_sync"])
                ELSE run["cfg"]
     \* full_issues is history: what fetch_issues would return at this moment
     \* under the JQL of the configuration as loaded
     IN run' = [run EXCEPT !["incremental"] = incremental, !["cfg"] = cfg,
                           !["updated_issues"] = fetch_issues(tracker, cfg),
                           !["full_issues"] = fetch_issues(tracker, run["cfg"])]
  /\ pc' = "fetch_changelogs"
  /\ UNCHANGED <<envVars, diskVars, dashboard, sheet, unstamped>>
  /\ UNCHANGED <<parseVars, mergeVars, calcVars, pctVars, getVars>>

\* lines 57-78: the change histories, the merge, the derivation of the events
FetchChangelogs ==
  /\ pc = "fetch_changelogs"
  /\ LET updated_changelogs == fetch_changelogs(tracker, run["updated_issues"])
         merged == IF run["incremental"]
                   THEN merge_updated_issues(run["cached_issues"],
                                             run["updated_issues"],
                                             updated_changelogs,
                                             run["cached_changelogs"])
                   ELSE <<run["updated_issues"], updated_changelogs>>
     IN run' = [run EXCEPT !["issues"] = merged[1], !["changelogs"] = merged[2],
                           !["events"] = parse_movement_events(merged[1], merged[2])]
  /\ pc' = IF run["dry_run"] THEN "write" ELSE "save_issues"
  /\ UNCHANGED <<envVars, diskVars, dashboard, sheet, unstamped>>
  /\ UNCHANGED <<parseVars, mergeVars, calcVars, pctVars, getVars>>

\* the request of a fetch fails after its retries: _get raises, main() ends
FetchFails ==
  /\ pc \in {"fetch_issues", "fetch_changelogs"}
  /\ pc' = "idle"
  /\ run' = RunIdle
  /\ UNCHANGED <<envVars, diskVars, dashboard, sheet, unstamped>>
  /\ UNCHANGED <<parseVars, mergeVars, calcVars, pctVars, getVars>>

\* save_cache, lines 70-71: issues.json
SaveIssues ==
  /\ pc = "save_issues"
  /\ f_issues' = JsonFile(json_dump_issues(run["issues"]))
  /\ unstamped' = unstamped \cup {"issues"}
  /\ pc' = "save_changelogs"
  /\ UNCHANGED <<envVars, f_changelogs, f_meta, dashboard, sheet, run>>
  /\ UNCHANGED <<parseVars, mergeVars, calcVars, pctVars, getVars>>

\* save_cache, lines 73-74: changelogs.json
SaveChangelogs ==
  /\ pc = "save_changelogs"
  /\ f_changelogs' = JsonFile(json_dump_changelogs(run["changelogs"]))
  /\ unstamped' = unstamped \cup {"changelogs"}
  /\ pc' = "save_meta"
  /\ UNCHANGED <<envVars, f_issues, f_meta, dashboard, sheet, run>>
  /\ UNCHANGED <<parseVars, mergeVars, calcVars, pctVars, getVars>>

\* save_cache, lines 76-83: meta.json, stamped with the time of the write
SaveMeta ==
  /\ pc = "save_meta"
  /\ f_meta' = JsonFile(json_dump_meta(MetaOf(run["cfg"], now, run["issues"],
                                           run["changelogs"])))
  /\ unstamped' = {}
  /\ pc' = "write"
  /\ UNCHANGED <<envVars, f_issues, f_changelogs, dashboard, sheet, run>>
  /\ UNCHANGED <<parseVars, mergeVars, calcVars, pctVars, getVars>>

\* lines 84-92: write_all, or the summary of a dry run
WriteSheet ==
  /\ pc = "write"
  /\ sheet' = IF run["dry_run"] THEN sheet
              ELSE _upsert_movement_events(_ensure_tabs(sheet), run["events"])
  /\ pc' = "dashboard"
  /\ UNCHANGED <<envVars, diskVars, dashboard, unstamped, run>>
  /\ UNCHANGED <<parseVars, mergeVars, calcVars, pctVars, getVars>>

\* lines 94-99: generate_dashboard writes dashboard/index.html; main() returns
GenerateDashboard ==
  /\ pc = "dashboard"
  /\ dashboard' = TRUE
  /\ pc' = "idle"
  /\ run' = RunIdle
  /\ UNCHANGED <<envVars, diskVars, sheet, unstamped>>
  /\ UNCHANGED <<parseVars, mergeVars, calcVars, pctVars, getVars>>

\* the process is killed between two steps
Crash ==
  /\ pc \notin {"idle", "off"}
  /\ pc' = "idle"
  /\ run' = RunIdle
  /\ UNCHANGED <<envVars, diskVars, dashboard, sheet, unstamped>>
  /\ UNCHANGED <<parseVars, mergeVars, calcVars, pctVars, getVars>>

\* the process is killed while json.dump writes a cache file: open(.., "w")
\* has truncated the file and only a part of the JSON text is on disk
CrashInWrite ==
  /\ pc \in {"save_issues", "save_changelogs", "save_meta"}
  /\ f_issues' = IF pc = "save_issues" THEN CorruptFile ELSE f_issues
  /\ f_changelogs' = IF pc = "save_changelogs" THEN CorruptFile ELSE f_changelogs
  /\ f_meta' = IF pc = "save_meta" THEN CorruptFile ELSE f_meta
  /\ pc' = "idle"
  /\ run' = RunIdle
  /\ UNCHANGED <<envVars, dashboard, sheet, unstamped>>
  /\ UNCHANGED <<parseVars, mergeVars, calcVars, pctVars, getVars>>

\* ---- save_cache followed by load_cache with the same Config object ----
\* the Config objects: as loaded, and after set_incremental_since
RtConfigs ==
  {load_config("2026-01-01"),
   set_incremental_since(load_config("2026-01-01"), IsoStr(0))}

\* the change-history maps to save: none, one key or two keys, each with one
\* entry of one item (a None among the items' values)
RtChangelogMaps ==
  {<<>>}
  \cup { << <<k, es>> >> : k \in PKeys, es \in PEntriesWith(1) }
  \cup { << <<"X-1", es1>>, <<"X-2", es2>> >> :
           es1 \in PEntriesWith(1), es2 \in PEntriesWith(1) }

\* a process about to call save_cache(cfg, issues, changelogs), on an empty
\* cache directory or on the files of an earlier save of an empty corpus
RoundTripInit ==
  /\ now \in 0..MaxTime
  /\ tracker = [k \in TKeys |-> NoIssue]
  /\ cfgfile = "2026-01-01"
  /\ \E cfg \in RtConfigs, issues \in PIssueLists, changelogs \in RtChangelogMaps :
        /\ run = [RunIdle EXCEPT !["cfg"] = cfg, !["issues"] = issues,
                                 !["changelogs"] = changelogs]
        /\ \/ f_issues = AbsentFile /\ f_changelogs = AbsentFile
              /\ f_meta = AbsentFile
           \/ /\ f_issues = JsonFile(json_dump_issues(<<>>))
              /\ f_changelogs = JsonFile(json_dump_changelogs(<<>>))
              /\ f_meta = JsonFile(json_dump_meta(MetaOf(cfg, 0, <<>>, <<>>)))
  /\ dashboard = FALSE
  /\ sheet = [exists |-> FALSE, rows |-> <<>>]
  /\ unstamped = {}
  /\ pc = "save_issues"

\* load_cache(cfg) right after save_cache returned
LoadAfterSave ==
  /\ pc = "write"
  /\ LET lc == load_cache(run["cfg"], f_meta, f_issues, f_changelogs)
     IN /\ IF lc["clear"]
           THEN f_issues' = AbsentFile /\ f_changelogs' = AbsentFile
                /\ f_meta' = AbsentFile /\ unstamped' = {}
           ELSE UNCHANGED <<diskVars, unstamped>>
        /\ run' = IF lc["result"] = "ok"
                  THEN [run EXCEPT
                          !["load"] = "ok",
                          !["cached_issues"] = json_load_issues(f_issues["data"]),
                          !["cached_changelogs"] =
                             json_load_changelogs(f_changelogs["data"]),
                          !["last_sync"] =
                             json_load_meta(f_meta["data"])["last_sync"]]
                  ELSE [run EXCEPT !["load"] = lc["result"]]
  /\ pc' = "loaded"
  /\ UNCHANGED <<envVars, dashboard, sheet>>
  /\ UNCHANGED <<parseVars, mergeVars, calcVars, pctVars, getVars>>

RoundTripNext == SaveIssues \/ SaveChangelogs \/ SaveMeta \/ LoadAfterSave

\* ---- write_all called run after run ----
MaxNewEvents == 2   \* events in the list handed to write_all

\* the snapshots an event is derived with: the status of the issue at the
\* run that derives it
UIssues ==
  {[key |-> k, status |-> st, created |-> IsoStr(0), assignee |-> ""] :
     k \in PKeys, st \in {"To Do", "Done"}}

\* the events of one transition per issue, as each snapshot derives them
UEvents ==
  {MovementEvent(i, i["key"], "alice", ChangedAt(0, 1),
                 [field |-> "status", fromString |-> "To Do", toString |-> "Done"]) :
     i \in UIssues}

UEventLists == UNION {[1..n -> UEvents] : n \in 0..MaxNewEvents}

\* a run that reached write_all with its events, before the first write
UpsertInit ==
  /\ now = 0
  /\ tracker = [k \in TKeys |-> NoIssue]
  /\ cfgfile = "2026-01-01"
  /\ f_issues = AbsentFile
  /\ f_changelogs = AbsentFile
  /\ f_meta = AbsentFile
  /\ dashboard = FALSE
  /\ sheet = [exists |-> FALSE, rows |-> <<>>]
  /\ unstamped = {}
  /\ pc = "write"
  /\ \E events \in UEventLists : run = [RunIdle EXCEPT !["events"] = events]

\* the next run reaches write_all with the events it derived (lines 84-92)
NextWriteAll ==
  /\ pc = "dashboard"
  /\ \E events \in UEventLists : run' = [RunIdle EXCEPT !["events"] = events]
  /\ pc' = "write"
  /\ UNCHANGED <<envVars, diskVars, dashboard, sheet, unstamped>>
  /\ UNCHANGED <<parseVars, mergeVars, calcVars, pctVars, getVars>>

UpsertNext == WriteSheet \/ NextWriteAll

\* main() from its first line to its last, one step at a time
MainStep ==
  \/ RunStart \/ FetchIssues \/ FetchChangelogs
  \/ SaveIssues \/ SaveChangelogs \/ SaveMeta
  \/ WriteSheet \/ GenerateDashboard

\* the runs against a tracker that changes; a fetch may fail
Next ==
  \/ Tick \/ CreateIssue \/ Transition
  \/ MainStep \/ FetchFails

\* the runs against a project that grows; a fetch may fail
NextCorpus ==
  \/ Tick \/ CreateIssue
  \/ MainStep \/ FetchFails

\* the runs on a machine that may kill the process, with a configuration
\* that may be edited
NextCache ==
  \/ Tick \/ CreateIssue \/ ConfigChange
  \/ MainStep
  \/ Crash \/ CrashInWrite

(***************************************************************************)
(* Inputs of the tables                                                    *)
(***************************************************************************)
MaxEvents == 2   \* events in the list handed to the tables

\* the status changes: into a status of the matrix from nothing, out of it
\* into a status the matrix does not know, on to the last status, and back
CPairs ==
  { <<None, "Reviewing">>, <<"Reviewing", "In Progress">>,
    <<"In Progress", "Done">>, <<"Done", "Reviewing">> }

CStamps == {""} \cup {IsoStr(t) : t \in 1..MaxStamp}

\* the events of X-1, and one event of an issue that is in no snapshot
CEvents ==
  { [issue_key |-> "X-1", from_status |-> pr[1], to_status |-> pr[2],
     changed_at |-> st] : pr \in CPairs, st \in CStamps }
  \cup { [issue_key |-> "X-2", from_status |-> None, to_status |-> "Reviewing",
          changed_at |-> IsoStr(1)] }

\* lists of one event more: three events of X-1 with readable timestamps,
\* the first at instant 1, so that the event after the next can be the
\* one that leaves a status
CChains ==
  LET readable == {e \in CEvents : e["issue_key"] = "X-1" /\ e["changed_at"] # ""}
  IN { <<a, b, c>> : a \in {e \in readable : e["changed_at"] = IsoStr(1)},
                     b \in readable, c \in readable }

CEventLists == UNION { [1..n -> CEvents] : n \in 0..MaxEvents } \cup CChains

\* the snapshot: no issue, or X-1 in a status of the matrix, created at a
\* known instant (before or after its first event) or at none
CIssueLists ==
  {<<>>}
  \cup { <<[key |-> "X-1", status |-> st, created |-> cr, assignee |-> "ann"]>> :
           st \in {"Reviewing", "Done"}, cr \in {"", IsoStr(0), IsoStr(2)} }

\* the evaluation instant: among the events' instants, or after them all
CRunTimes == {1, MaxStamp + 1}

CalcInit ==
  /\ c_phase = "input"
  /\ c_events \in CEventLists
  /\ c_issues \in CIssueLists
  /\ c_run_time \in CRunTimes
  /\ c_long = <<>>
  /\ c_matrix = <<>>
  /\ c_cycle = <<>>
  /\ c_metrics = <<>>

\* SheetsWriter._write_status_matrix and compute_metrics on the same
\* events and issues
ComputeTables ==
  /\ c_phase = "input"
  /\ LET tables == compute_status_durations(c_events, c_issues, c_run_time)
     IN /\ c_long' = tables["long"]
        /\ c_matrix' = tables["matrix"]
  /\ c_cycle' = cycle_table(c_events, c_issues)
  /\ c_phase' = "computed"
  /\ UNCHANGED <<c_events, c_issues, c_run_time, c_metrics>>
  /\ UNCHANGED <<parseVars, mergeVars, pipeVars, pctVars, getVars>>

CalcNext == ComputeTables

(***************************************************************************)
(* Inputs of compute_metrics                                               *)
(***************************************************************************)
\* the status changes: into progress, on to done, back (a reopen), and to
\* the milestone
MetPairs ==
  { <<"", "In Progress">>, <<"In Progress", "Done">>, <<"Done", "In Progress">>,
    <<"In Progress", "Submitted for Signature">> }

\* the values of changed_at: none, unreadable, and two instants
MetStamps == {"", BadStamp, IsoStr(1), IsoStr(2)}

MetEvents ==
  { [issue_key |-> "X-1", from_status |-> pr[1], to_status |-> pr[2],
     changed_at |-> st] : pr \in MetPairs, st \in MetStamps }
  \cup { [issue_key |-> "X-2", from_status |-> "", to_status |-> "In Progress",
          changed_at |-> IsoStr(1)] }

MetEventLists == UNION { [1..n -> MetEvents] : n \in 0..MaxEvents }

\* the snapshot: no issue, X-1 alone, or X-1 before X-2; X-1 in progress,
\* in a done status, or in a status whose name contains "due"
MetStatuses == {"In Progress", "Done", "Closed", "Overdue Review"}

MetIssue(key, st, cr) == [key |-> key, status |-> st, created |-> cr, assignee |-> "ann"]

MetIssueLists ==
  {<<>>}
  \cup { <<MetIssue("X-1", st, cr)>> : st \in MetStatuses, cr \in {"", IsoStr(0)} }
  \cup { <<MetIssue("X-1", st, IsoStr(0)), MetIssue("X-2", "In Progress", IsoStr(0))>> :
           st \in MetStatuses }

\* the evaluation instant: 6, 16 and 60 days after instant 0
MetRunTimes == {3, 8, 30}

MetricsInit ==
  /\ c_phase = "input"
  /\ c_events \in MetEventLists
  /\ c_issues \in MetIssueLists
  /\ c_run_time \in MetRunTimes
  /\ c_long = <<>>
  /\ c_matrix = <<>>
  /\ c_cycle = <<>>
  /\ c_metrics = <<>>

\* main: metrics = compute_metrics(events, issues, cfg)
ComputeMetrics ==
  /\ c_phase = "input"
  /\ c_metrics' = compute_metrics(c_events, c_issues, c_run_time)
  /\ c_phase' = "computed"
  /\ UNCHANGED <<c_events, c_issues, c_run_time, c_long, c_matrix, c_cycle>>
  /\ UNCHANGED <<parseVars, mergeVars, pipeVars, pctVars, getVars>>

MetricsNext == ComputeMetrics

(***************************************************************************)
(* Inputs of _percentile                                                   *)
(***************************************************************************)
MaxSamples == 3   \* samples in the list

\* samples in thousandths of an hour: whole hundredths, and values that
\* round(x, 2) moves down or up
QValues == {0 - 6, 0, 4, 1230, 1234, 2018}

QSampleLists == UNION { [1..n -> QValues] : n \in 0..MaxSamples }

PctInit ==
  /\ q_phase = "input"
  /\ q_data \in QSampleLists
  /\ q_p50 = 0
  /\ q_p90 = 0

\* _summarise (lines 137-138, 140-141): the two percentiles of one list
ComputePercentiles ==
  /\ q_phase = "input"
  /\ q_p50' = _percentile(q_data, 50)
  /\ q_p90' = _percentile(q_data, 90)
  /\ q_phase' = "computed"
  /\ UNCHANGED q_data
  /\ UNCHANGED <<parseVars, mergeVars, pipeVars, calcVars, getVars>>

PctNext == ComputePercentiles

\* ---- one call of _get ----
MaxRetries == 3   \* the largest cfg.max_retries

Response(status_code, headers, text) ==
  [error |-> None, status_code |-> status_code, headers |-> headers, text |-> text]

\* what session.get can meet: a response, or an exception of requests
GResponses ==
  {Response(200, <<>>, OkBody), Response(200, <<>>, HtmlBody),
   Response(429, <<>>, ErrBody),
   Response(429, << <<"Retry-After", DelaySeconds>> >>, ErrBody),
   Response(429, << <<"Retry-After", HttpDate>> >>, ErrBody),
   Response(503, <<>>, ErrBody),
   Response(404, <<>>, ErrBody),
   [error |-> "ConnectionError", status_code |-> 0, headers |-> <<>>, text |-> ""]}

\* line 122: backoff = 1.0, before the first iteration
GetInit ==
  /\ g_pc = "loop"
  /\ g_max_retries \in 0..MaxRetries
  /\ g_attempt = 0
  /\ g_backoff = 16
  /\ g_responses = <<>>
  /\ g_slept = <<>>
  /\ g_result = <<>>

\* for attempt in range(self.cfg.max_retries): one iteration (lines 123-144)
GetAttempt ==
  /\ g_pc = "loop"
  /\ g_attempt < g_max_retries
  /\ \E resp \in GResponses, json_error_is_request_exception \in BOOLEAN :
       LET after == Iteration(resp, g_attempt, g_backoff, g_max_retries,
                              json_error_is_request_exception)
       IN /\ g_pc' = after["pc"]
          /\ g_result' = after["result"]
          /\ g_backoff' = after["backoff"]
          /\ g_slept' = g_slept \o after["slept"]
          /\ g_responses' = Append(g_responses, resp)
  /\ g_attempt' = g_attempt + 1
  /\ UNCHANGED g_max_retries
  /\ UNCHANGED <<parseVars, mergeVars, pipeVars, calcVars, pctVars>>

\* line 145: the loop ended without a return
GetExhausted ==
  /\ g_pc = "loop"
  /\ g_attempt >= g_max_retries
  /\ g_pc' = "raised"
  /\ g_result' = <<"raise", "RuntimeError">>
  /\ UNCHANGED <<g_max_retries, g_attempt, g_backoff, g_responses, g_slept>>
  /\ UNCHANGED <<parseVars, mergeVars, pipeVars, calcVars, pctVars>>

GetNext == GetAttempt \/ GetExhausted

GetOff ==
  /\ g_pc = "off"
  /\ g_max_retries = 0
  /\ g_attempt = 0
  /\ g_backoff = 0
  /\ g_responses = <<>>
  /\ g_slept = <<>>
  /\ g_result = <<>>

PctOff ==
  /\ q_phase = "off"
  /\ q_data = <<>>
  /\ q_p50 = 0
  /\ q_p90 = 0

\* the tables' variables in the specifications of other parts
CalcOff ==
  /\ c_phase = "off"
  /\ c_events = <<>>
  /\ c_issues = <<>>
  /\ c_run_time = 0
  /\ c_long = <<>>
  /\ c_matrix = <<>>
  /\ c_cycle = <<>>
  /\ c_metrics = <<>>

(***************************************************************************)
(* Specifications                                                          *)
(***************************************************************************)
Init == PipeInit /\ ParseOff /\ MergeOff /\ CalcOff /\ PctOff /\ GetOff
Spec == Init /\ [][Next]_vars
SpecCache == Init /\ [][NextCache]_vars

SpecCorpus == Init /\ [][NextCorpus]_vars

SpecUpsertInit == UpsertInit /\ ParseOff /\ MergeOff /\ CalcOff /\ PctOff /\ GetOff
SpecUpsert == SpecUpsertInit /\ [][UpsertNext]_vars

SpecRoundTripInit == RoundTripInit /\ ParseOff /\ MergeOff /\ CalcOff /\ PctOff /\ GetOff
SpecRoundTrip == SpecRoundTripInit /\ [][RoundTripNext]_vars

SpecCalcInit == CalcInit /\ ParseOff /\ MergeOff /\ PipeOff /\ PctOff /\ GetOff
SpecCalc == SpecCalcInit /\ [][CalcNext]_vars

SpecParseInit == ParseInit /\ MergeOff /\ PipeOff /\ CalcOff /\ PctOff /\ GetOff
SpecParse == SpecParseInit /\ [][ParseNext]_vars

SpecMergeInit == MergeInit /\ ParseOff /\ PipeOff /\ CalcOff /\ PctOff /\ GetOff
SpecMerge == SpecMergeInit /\ [][MergeNext]_vars

SpecMetricsInit == MetricsInit /\ ParseOff /\ MergeOff /\ PipeOff /\ PctOff /\ GetOff
SpecMetrics == SpecMetricsInit /\ [][MetricsNext]_vars

SpecPercentileInit == PctInit /\ ParseOff /\ MergeOff /\ PipeOff /\ CalcOff /\ GetOff
SpecPercentile == SpecPercentileInit /\ [][PctNext]_vars

SpecGetInit == GetInit /\ ParseOff /\ MergeOff /\ PipeOff /\ CalcOff /\ PctOff
SpecGet == SpecGetInit /\ [][GetNext]_vars

(***************************************************************************)
(* Claims about the derivation (checked under SpecParse)                   *)
(***************************************************************************)
IdSet(events) == {events[i]["event_id"] : i \in 1..Len(events)}

NoDupIds(events) ==
  \A i, j \in 1..Len(events) :
     events[i]["event_id"] = events[j]["event_id"] => i = j

SameFact(e1, e2) ==
  /\ e1["issue_key"] = e2["issue_key"]
  /\ e1["changed_at"] = e2["changed_at"]
  /\ e1["from_status"] = e2["from_status"]
  /\ e1["to_status"] = e2["to_status"]

\* The places <<d, e, i>> of the status items of issues that are in the
\* snapshot: item i of entry e of the d-th change history.
StatusPlaces(issues, changelogs) ==
  { pl \in UNION { UNION { { <<d, e, i>> :
                               i \in 1..Len(changelogs[d][2][e]["items"]) } :
                           e \in 1..Len(changelogs[d][2]) } :
                   d \in 1..Len(changelogs) } :
      /\ \E n \in 1..Len(issues) : issues[n]["key"] = changelogs[pl[1]][1]
      /\ changelogs[pl[1]][2][pl[2]]["items"][pl[3]]["field"] = "status" }

PlaceBefore(a, b) ==
  \/ a[1] < b[1]
  \/ a[1] = b[1] /\ a[2] < b[2]
  \/ a[1] = b[1] /\ a[2] = b[2] /\ a[3] < b[3]

PlaceRank(places, pl) == 1 + Cardinality({q \in places : PlaceBefore(q, pl)})

NullToEmpty(v) == IF v = None THEN "" ELSE v

PlaceIdString(changelogs, pl) ==
  LET entry == changelogs[pl[1]][2][pl[2]]
      item  == entry["items"][pl[3]]
  IN changelogs[pl[1]][1] \o "|" \o entry["created"] \o "|"
     \o NullToEmpty(item["fromString"]) \o "|" \o NullToEmpty(item["toString"])

\* C2: the event_id of an event depends only on (issue_key, changed_at,
\* from_status, to_status): any two events of two derivations that state the
\* same fact carry the same event_id, and a derivation from the same history
\* with another author, other snapshot fields or the entries in another
\* position yields the same set of event_ids.
C2_IdDependsOnlyOnFact ==
  p_phase = "rederived" =>
    /\ \A e1 \in Range(p_events) \cup Range(p_events2) :
         \A e2 \in Range(p_events) \cup Range(p_events2) :
            SameFact(e1, e2) => e1["event_id"] = e2["event_id"]
    /\ IdSet(p_events2) = IdSet(p_events)

\* the second derivation saw another author and other snapshot fields for a
\* fact of the first
C2_Witness ==
  /\ p_phase = "rederived"
  /\ \E e1 \in Range(p_events) : \E e2 \in Range(p_events2) :
       /\ SameFact(e1, e2)
       /\ e1["changed_by"] # e2["changed_by"]
  /\ Len(p_events) = 2
  /\ p_events[1]["event_id"] # p_events[2]["event_id"]

\* C3 as claimed: no two events of the returned list carry the same event_id.
C3_ReturnedListDeduplicated == NoDupIds(p_events)

\* C3 as amended: the list is not deduplicated; its event_ids are pairwise
\* distinct exactly when the id strings issue_key|changed_at|from|to of the
\* status items of the snapshot's issues are pairwise distinct.
C3_DistinctIdsIffDistinctFacts ==
  p_phase # "input" =>
    LET places == StatusPlaces(p_issues, p_changelogs)
    IN NoDupIds(p_events)
       <=> \A a, b \in places :
              PlaceIdString(p_changelogs, a) = PlaceIdString(p_changelogs, b)
              => a = b

\* a history with the same status item twice was derived: two events, one id
C3_Witness ==
  /\ p_phase = "parsed"
  /\ Len(p_events) = 2
  /\ p_events[1] = p_events[2]

\* What C4 says of one derivation.
OneEventPerStatusItem(issues, changelogs, events) ==
  LET places == StatusPlaces(issues, changelogs)
  IN /\ Len(events) = Cardinality(places)
     /\ \A pl \in places :
          LET entry == changelogs[pl[1]][2][pl[2]]
              item  == entry["items"][pl[3]]
              ev    == events[PlaceRank(places, pl)]
          IN /\ ev["issue_key"] = changelogs[pl[1]][1]
             /\ ev["changed_at"] = entry["created"]
             /\ ev["from_status"] = NullToEmpty(item["fromString"])
             /\ ev["to_status"] = NullToEmpty(item["toString"])
             /\ ev["changed_by"] = NullToEmpty(entry["author"])
     /\ \A n \in 1..Len(events) :
          events[n]["from_status"] # None /\ events[n]["to_status"] # None

\* C4: exactly one event per change-history item whose field is "status" and
\* whose issue is in the snapshot, in the order of the history; none for an
\* item of another field, none for an issue key absent from the snapshot;
\* a missing from/to value is the empty string.
C4_OneEventPerStatusItem ==
  /\ p_phase # "input" => OneEventPerStatusItem(p_issues, p_changelogs, p_events)
  /\ p_phase = "rederived"
       => OneEventPerStatusItem(p_issues2, p_changelogs2, p_events2)

\* a history of an issue absent from the snapshot was dropped, and a status
\* item without a from value was emitted
C4_Witness ==
  /\ p_phase = "parsed"
  /\ \E d \in 1..Len(p_changelogs) :
       /\ ~issue_map_has(p_issues, p_changelogs[d][1])
       /\ \E e \in 1..Len(p_changelogs[d][2]) :
            p_changelogs[d][2][e]["items"][1]["field"] = "status"
  /\ Len(p_events) = 1
  /\ p_events[1]["from_status"] = ""

(***************************************************************************)
(* Claims about the merge (checked under SpecMerge)                        *)
(***************************************************************************)
IssueKeys(issues) == {issues[i]["key"] : i \in 1..Len(issues)}
WithKey(issues, k) == SelectSeq(issues, LAMBDA i : i["key"] = k)

\* a dict as a map: the same keys with the same values
SameMap(a, b) ==
  /\ DictKeys(a) = DictKeys(b)
  /\ Len(a) = Len(b)
  /\ \A k \in DictKeys(a) : DictGet(a, k) = DictGet(b, k)

\* C5: in the merged corpus every issue key of the new fetch holds the newly
\* fetched snapshot and nothing else, every cached issue of another key is
\* retained unchanged, and the change-history map follows the same rule per
\* key: the new entry replaces the cached one, other cached entries stay.
C5_MergeReplacesByKey ==
  m_phase # "input" /\ m_phase # "off" =>
    LET issues     == m_merged[1]
        changelogs == m_merged[2]
    IN /\ IssueKeys(issues) = IssueKeys(m_cached_issues) \cup IssueKeys(m_updated_issues)
       /\ \A k \in IssueKeys(m_updated_issues) :
            WithKey(issues, k) = WithKey(m_updated_issues, k)
       /\ \A k \in IssueKeys(m_cached_issues) \ IssueKeys(m_updated_issues) :
            WithKey(issues, k) = WithKey(m_cached_issues, k)
       /\ DictKeys(changelogs) = DictKeys(m_cached_changelogs)
                                 \cup DictKeys(m_updated_changelogs)
       /\ Len(changelogs) = Cardinality(DictKeys(changelogs))
       /\ \A k \in DictKeys(m_updated_changelogs) :
            DictGet(changelogs, k) = DictGet(m_updated_changelogs, k)
       /\ \A k \in DictKeys(m_cached_changelogs) \ DictKeys(m_updated_changelogs) :
            DictGet(changelogs, k) = DictGet(m_cached_changelogs, k)

\* a merge replaced a cached snapshot and a cached history by other content
\* and retained another cached issue and another cached history
C5_Witness ==
  /\ m_phase = "merged"
  /\ \E k \in IssueKeys(m_updated_issues) \cap IssueKeys(m_cached_issues) :
       WithKey(m_updated_issues, k) # WithKey(m_cached_issues, k)
  /\ IssueKeys(m_cached_issues) \ IssueKeys(m_updated_issues) # {}
  /\ \E k \in DictKeys(m_updated_changelogs) \cap DictKeys(m_cached_changelogs) :
       DictGet(m_updated_changelogs, k) # DictGet(m_cached_changelogs, k)
  /\ DictKeys(m_cached_changelogs) \ DictKeys(m_updated_changelogs) # {}

\* the delta holds only issues and histories the cache holds, unchanged
DeltaUnchanged ==
  /\ \A i \in 1..Len(m_updated_issues) :
       m_updated_issues[i] \in Range(m_cached_issues)
  /\ \A k \in DictKeys(m_updated_changelogs) :
       /\ DictHas(m_cached_changelogs, k)
       /\ DictGet(m_cached_changelogs, k) = DictGet(m_updated_changelogs, k)

\* C6: merging a delta of unchanged, already cached issues and histories
\* (one snapshot per key) leaves the number of issues and the content per key
\* as they were, and merging the same delta once more changes nothing at all.
C6_MergeIdempotent ==
  /\ (m_phase \in {"merged", "merged2"} /\ DeltaUnchanged) =>
       /\ Len(m_merged[1]) = Len(m_cached_issues)
       /\ \A k \in MKeys : WithKey(m_merged[1], k) = WithKey(m_cached_issues, k)
       /\ SameMap(m_merged[2], m_cached_changelogs)
  /\ m_phase = "merged2" => m_merged2 = m_merged

\* an unchanged, non-empty delta of issues and histories was merged twice
C6_Witness ==
  /\ m_phase = "merged2"
  /\ DeltaUnchanged
  /\ m_updated_issues # <<>>
  /\ m_updated_changelogs # <<>>
  /\ Len(m_cached_issues) > Len(m_updated_issues)
  /\ m_merged[1] # m_cached_issues

(***************************************************************************)
(* Claims about the runs against a changing tracker (checked under Spec)   *)
(***************************************************************************)
\* the event_id column of the data rows of the movement_events tab
SheetIds == [i \in 1..(Len(sheet["rows"]) - 1) |-> sheet["rows"][i + 1]["event_id"]]

\* C1: after any sequence of non-dry runs, no two rows of the
\* movement_events tab hold the same event_id, also when the events a run
\* derives overlap the rows of earlier runs or hold one fact twice.
\* The code breaks it: _upsert_movement_events filters the derived events
\* against the ids already in the tab only, and the deriver emits one event
\* per status item, so a fact derived twice in one run is appended twice.
C1_NoDuplicateEventIdInSheet ==
  \A i, j \in 1..Len(SheetIds) : i # j => SheetIds[i] # SheetIds[j]

\* a later run has appended nothing for the ids the tab already held: the
\* filter against the tab works, the duplicate comes from within one run
C1_Witness ==
  /\ pc = "dashboard" /\ ~run["dry_run"]
  /\ Len(run["events"]) = 1
  /\ Len(SheetIds) = 1
  /\ run["incremental"] /\ run["updated_issues"] = <<>>

\* C7: with an unchanged configuration the cache stays usable: the
\* fingerprint in meta.json is the fingerprint load_cache computes from the
\* configuration file, and once a non-dry run has completed its save (the
\* tab it writes afterwards exists) every later normal run loads the cache.
\* The code breaks it: set_incremental_since overwrites jira_jql_override
\* of the Config object that save_cache hashes afterwards.
C7_CacheStaysUsable ==
  /\ f_meta["st"] = "ok"
       => json_load_meta(f_meta["data"])["config_hash"]
            = _config_hash(load_config(cfgfile))
  /\ (pc = "fetch_issues" /\ sheet["exists"] /\ run["load"] # "skipped")
       => run["load"] = "ok"

\* the consequence: the configuration never changes under Spec, a cache was
\* saved (the tab is written after the save), and a normal run is left with
\* no cache file and fetches everything
C7_CacheDiscarded ==
  /\ pc = "fetch_issues" /\ run["load"] = "none"
  /\ sheet["exists"]
  /\ f_meta = AbsentFile /\ f_issues = AbsentFile /\ f_changelogs = AbsentFile

(***************************************************************************)
(* Claims about the cache files on a machine that may kill the process     *)
(* (checked under SpecCache)                                               *)
(***************************************************************************)
\* C8: whenever load_cache reports no usable cache, none of the three cache
\* files is left on disk.
\* The code breaks it: _clear_cache is called on a fingerprint mismatch
\* only; with meta.json absent, or issues.json or changelogs.json missing,
\* load_cache returns (None, None, None) and removes nothing.
C8_NoCacheMeansPurged ==
  (pc = "fetch_issues" /\ run["load"] = "none")
     => /\ f_issues = AbsentFile
        /\ f_changelogs = AbsentFile
        /\ f_meta = AbsentFile

\* the path that does purge, a fingerprint mismatch: a cache was saved (the
\* tab is written after the save) and no file of it is left
C8_Witness ==
  /\ pc = "fetch_issues" /\ run["load"] = "none"
  /\ sheet["exists"]
  /\ run["cfg"]["backfill_from"] = "2025-01-01"
  /\ f_meta = AbsentFile /\ f_issues = AbsentFile /\ f_changelogs = AbsentFile

\* C9: load_cache never raises: with a corrupt cache file it returns
\* (None, None, None) and the run goes on with a full fetch.
\* The code breaks it: the three json.load calls are unguarded, the
\* JSONDecodeError leaves load_cache and ends main().
C9_LoadCacheNeverRaises == run["load"] # "raised"

\* C10: after a crash inside save_cache, load_cache reports no cache or
\* returns issues, change histories and last_sync of one completed save:
\* neither file it returns was written after the meta.json it read.
\* The code breaks it: issues.json and changelogs.json are overwritten in
\* place before meta.json, and load_cache accepts them under the meta.json
\* of an earlier save with the same fingerprint.
C10_LoadedCacheFromOneSave ==
  (pc = "fetch_issues" /\ run["load"] = "ok") => run["loaded_unstamped"] = {}

\* the torn cache is visible in the data: an issue without a change history
C10_TornCacheLoaded ==
  /\ pc = "fetch_issues" /\ run["load"] = "ok"
  /\ run["loaded_unstamped"] = {"issues"}
  /\ IssueKeys(run["cached_issues"]) # DictKeys(run["cached_changelogs"])

C12_DryRunWritesNothing ==
  [][(run["dry_run"] \/ run'["dry_run"])
       => /\ diskVars' = diskVars
          /\ sheet' = sheet
          /\ dashboard' = dashboard]_vars

\* what does hold: a dry run that derived an event reaches its last step
\* with no cache file and no tab
C12_Witness ==
  /\ pc = "dashboard" /\ run["dry_run"]
  /\ Len(run["events"]) > 0
  /\ f_issues = AbsentFile /\ f_changelogs = AbsentFile /\ f_meta = AbsentFile
  /\ ~sheet["exists"]
  /\ ~dashboard

\* C13: a failed fetch leaves the cache as the run found it: no step of a
\* run, from its start up to and including the failure of a fetch, changes
\* issues.json, changelogs.json or meta.json.
\* The code breaks it: load_cache deletes the three files on a fingerprint
\* mismatch before anything is fetched, and the fingerprint saved by an
\* incremental run never matches; a fetch that then fails leaves no cache.
C13_FailedFetchKeepsCache ==
  [][(\/ pc' \in {"fetch_issues", "fetch_changelogs"}
      \/ (pc \in {"fetch_issues", "fetch_changelogs"} /\ pc' = "idle"))
       => diskVars' = diskVars]_vars

\* the outcome: the configuration never changes under Spec, a cache was
\* saved (the tab is written after the save), a fetch failed, and no cache
\* file is left for the next run
C13_CacheLostByFailedRun ==
  /\ pc = "idle"
  /\ sheet["exists"]
  /\ f_issues = AbsentFile /\ f_changelogs = AbsentFile /\ f_meta = AbsentFile

\* C14: an incremental run hands to the deriver and saves the corpus that a
\* full fetch in the same run would have produced: the same issue snapshots
\* and, per issue, the same change histories.
\* The code breaks it: last_sync is the time of save_cache, later than the
\* fetch, so an issue updated between the fetch and the stamp, in a minute
\* before that of the stamp, is not matched by the next incremental JQL and
\* keeps its old snapshot.
C14_IncrementalEqualsFull ==
  (pc = "save_issues" /\ run["incremental"])
    => /\ Len(run["issues"]) = Len(run["full_issues"])
       /\ Range(run["issues"]) = Range(run["full_issues"])
       /\ Range(run["changelogs"])
            = Range(fetch_changelogs(tracker, run["full_issues"]))

\* the stale snapshot: the incremental fetch returned nothing, and the
\* merged corpus holds an issue in another status than the one a full fetch
\* made at the same moment returned
C14_StaleSnapshotKept ==
  /\ pc = "save_issues" /\ run["incremental"]
  /\ run["updated_issues"] = <<>>
  /\ \E i \in 1..Len(run["issues"]), j \in 1..Len(run["full_issues"]) :
       /\ run["issues"][i]["key"] = run["full_issues"][j]["key"]
       /\ run["issues"][i]["status"] = "To Do"
       /\ run["full_issues"][j]["status"] = "Done"

(***************************************************************************)
(* Claims about the status tables (checked under SpecCalc)                 *)
(***************************************************************************)
\* the data rows of the two tables, and the rows of one issue in the order
\* of status_durations_long (by entered_at)
LongData   == SubSeq(c_long, 2, Len(c_long))
MatrixData == SubSeq(c_matrix, 2, Len(c_matrix))
LongOf(key) == SelectSeq(LongData, LAMBDA r : r["issue_key"] = key)
EventsOf(key) == SelectSeq(c_events, LAMBDA e : e["issue_key"] = key)
StampsOf(key) == {EventsOf(key)[i]["changed_at"] : i \in 1..Len(EventsOf(key))}
CurrentStatus(key) == Upper(IssueGet(c_issues, key, "status"))

\* C15: a span is left open, its exit being run_time, only if the issue's
\* current status is the span's state: a span of another state, or of an
\* issue absent from the snapshot, exits at the timestamp of an event, also
\* when the issue's last event opened it.
\* The code breaks it: for the last event (no i + 1) of an issue whose
\* current status differs, the exit is run_time.
C15_OpenOnlyInCurrentStatus ==
  c_phase = "computed"
    => \A n \in 1..Len(LongData) :
         LET r == LongData[n]
         IN CurrentStatus(r["issue_key"]) # r["status"]
              => r["exited_at"] \in StampsOf(r["issue_key"])

\* what does hold: a span of another state than the current one, opened by
\* an event that is not the last, exits at the next event's timestamp
C15_Witness ==
  /\ c_phase = "computed"
  /\ c_run_time = MaxStamp + 1
  /\ Len(c_events) = 2
  /\ \E n \in 1..Len(LongData) :
       /\ LongData[n]["status"] = "REVIEWING"
       /\ CurrentStatus("X-1") = "DONE"
       /\ LongData[n]["issue_key"] = "X-1"
       /\ LongData[n]["entered_at"] = IsoStr(1)
       /\ LongData[n]["exited_at"] = IsoStr(2)

\* the timestamps of an issue's events are all readable, none is earlier
\* than a known creation, none later than run_time
SaneStamps(key) ==
  LET created == _parse_dt(IssueGet(c_issues, key, "created"))
  IN \A st \in StampsOf(key) :
       /\ _parse_dt(st) # NoDt
       /\ created = NoDt \/ created <= _parse_dt(st)
       /\ _parse_dt(st) <= c_run_time

\* C16: the spans of an issue are time-ordered and do not overlap: the rows
\* are in entered_at order, and of two rows one exits no later than the
\* other is entered (so that rows entered at the same instant may come in
\* either order).  Stated here for the histories without clock skew only,
\* where it already fails.
\* The code breaks it: the exit of a span is the first later event that
\* leaves its state, or run_time, whatever spans were opened in between.
C16_SpansDoNotOverlap ==
  c_phase = "computed"
    => \A key \in {k \in {"X-1", "X-2"} : SaneStamps(k)} :
         \A n, k \in 1..Len(LongOf(key)) :
           n < k
             => /\ _parse_dt(LongOf(key)[n]["entered_at"])
                     <= _parse_dt(LongOf(key)[k]["entered_at"])
                /\ \/ _parse_dt(LongOf(key)[n]["exited_at"])
                        <= _parse_dt(LongOf(key)[k]["entered_at"])
                   \/ _parse_dt(LongOf(key)[k]["exited_at"])
                        <= _parse_dt(LongOf(key)[n]["entered_at"])

\* what does hold: a state left through a matching event is followed by the
\* next state without overlap
C16_Witness ==
  /\ c_phase = "computed"
  /\ Len(LongOf("X-1")) = 2
  /\ LongOf("X-1")[1]["status"] = "REVIEWING"
  /\ LongOf("X-1")[2]["status"] = "DONE"
  /\ LongOf("X-1")[1]["exited_at"] = LongOf("X-1")[2]["entered_at"]
  /\ LongOf("X-1")[1]["entered_at"] # LongOf("X-1")[1]["exited_at"]

\* the events of an issue in the snapshot all lie between its creation and
\* run_time
WithinLifetime(key) ==
  /\ issue_map_has(c_issues, key)
  /\ _parse_dt(IssueGet(c_issues, key, "created")) # NoDt
  /\ _parse_dt(IssueGet(c_issues, key, "created")) <= c_run_time
  /\ \A st \in StampsOf(key) :
       /\ _parse_dt(st) # NoDt
       /\ _parse_dt(IssueGet(c_issues, key, "created")) <= _parse_dt(st)
       /\ _parse_dt(st) <= c_run_time

\* the days between two instants
ElapsedDays(from, to) == (to - from) * 2

RECURSIVE SumDays(_)
SumDays(rows) ==
  IF rows = <<>> THEN 0 ELSE Head(rows)["days_in_status"] + SumDays(Tail(rows))

\* C17: for an issue whose events lie between its creation and run_time,
\* the durations of its spans, and total_days of its matrix row, sum to no
\* more than the time from its creation to run_time.
\* The code breaks it: overlapping spans are each counted in full.
C17_SpansWithinLifetime ==
  c_phase = "computed"
    => \A key \in {"X-1", "X-2"} :
         WithinLifetime(key)
           => /\ SumDays(LongOf(key))
                   <= ElapsedDays(_parse_dt(IssueGet(c_issues, key, "created")),
                                  c_run_time)
              /\ \A n \in 1..Len(MatrixData) :
                   MatrixData[n]["issue_key"] = key
                     => MatrixData[n]["total_days"]
                          <= ElapsedDays(_parse_dt(IssueGet(c_issues, key, "created")),
                                         c_run_time)

\* what does hold: a history without re-entry fills the lifetime exactly
C17_Witness ==
  /\ c_phase = "computed"
  /\ WithinLifetime("X-1")
  /\ Len(EventsOf("X-1")) = 2
  /\ Len(LongOf("X-1")) = 3
  /\ SumDays(LongOf("X-1")) = ElapsedDays(0, c_run_time)

\* C18: every duration is non-negative: an exit earlier than the entry
\* gives 0 days, the other spans the days between entry and exit; every
\* column of the matrix and total_days are >= 0.
C18_DurationsNonNegative ==
  c_phase = "computed"
    => /\ \A n \in 1..Len(LongData) :
            LET entered == _parse_dt(LongData[n]["entered_at"])
                exited  == _parse_dt(LongData[n]["exited_at"])
            IN LongData[n]["days_in_status"]
                 = IF exited < entered THEN 0 ELSE ElapsedDays(entered, exited)
       /\ \A n \in 1..Len(MatrixData) :
            /\ \A i \in 1..Len(STATUSES) : MatrixData[n]["status_days"][i] >= 0
            /\ MatrixData[n]["total_days"] >= 0

\* clock skew (run_time before the entry of the open span) and a creation
\* later than the first event, both clamped
C18_Witness ==
  /\ c_phase = "computed"
  /\ \E n, k \in 1..Len(LongData) :
       /\ _parse_dt(LongData[n]["exited_at"]) = c_run_time
       /\ _parse_dt(LongData[n]["entered_at"]) > c_run_time
       /\ LongData[n]["days_in_status"] = 0
       /\ LongData[k]["entered_at"] = IssueGet(c_issues, "X-1", "created")
       /\ _parse_dt(LongData[k]["exited_at"]) < _parse_dt(LongData[k]["entered_at"])
       /\ LongData[k]["days_in_status"] = 0

\* C19: the top stuck state of a matrix row is the first state, in the
\* order of STATUSES, whose days equal the row's maximum; an issue without
\* events has 0 in every column, total_days 0 and the first state on top.
C19_TopStuckIsFirstMaximum ==
  c_phase = "computed"
    => \A n \in 1..Len(MatrixData) :
         LET row  == MatrixData[n]
             days == row["status_days"]
             best == {i \in 1..Len(STATUSES) :
                        \A j \in 1..Len(STATUSES) : days[j] <= days[i]}
         IN /\ \E i \in best :
                 /\ \A j \in best : i <= j
                 /\ row["top_stuck_status"] = STATUSES[i]
                 /\ row["max_days_in_status"] = days[i]
            /\ EventsOf(row["issue_key"]) = <<>>
                 => /\ \A i \in 1..Len(STATUSES) : days[i] = 0
                    /\ row["total_days"] = 0
                    /\ row["top_stuck_status"] = STATUSES[1]

\* a tie between two states with days: the earlier state of STATUSES wins
C19_Witness ==
  /\ c_phase = "computed"
  /\ \E n \in 1..Len(MatrixData) :
       /\ MatrixData[n]["status_days"][3] > 0
       /\ MatrixData[n]["status_days"][3] = MatrixData[n]["status_days"][15]
       /\ MatrixData[n]["top_stuck_status"] = "REVIEWING"

\* the instants of the readable events of an issue that lead into one of
\* the statuses, and the earliest instant of a set
StampsInto(key, statuses) ==
  {_parse_dt(EventsOf(key)[i]["changed_at"]) :
     i \in {j \in 1..Len(EventsOf(key)) :
              /\ Lower(EventsOf(key)[j]["to_status"]) \in statuses
              /\ _parse_dt(EventsOf(key)[j]["changed_at"]) # NoDt}}
Earliest(S) == CHOOSE t \in S : \A u \in S : t <= u
CycleOf(key) == SelectSeq(c_cycle["data"], LAMBDA d : d["issue_key"] = key)

\* C20: an issue with a transition into a done status has one entry in the
\* cycle-time data, with cycle time = first done transition - first
\* in-progress transition and lead time = first done transition - creation
\* (in thousandths of an hour; a tick is 48 hours); an issue without a transition into a
\* done status has no entry and is not counted.
C20_CycleAndLeadTime ==
  c_phase = "computed"
    => /\ \A key \in {"X-1", "X-2"} :
            LET dones == StampsInto(key, {"done", "closed"})
                ips   == StampsInto(key, {"in progress"})
                cr    == _parse_dt(IssueGet(c_issues, key, "created"))
            IN IF dones = {}
               THEN CycleOf(key) = <<>>
               ELSE /\ Len(CycleOf(key)) = 1
                    /\ ips # {}
                         => CycleOf(key)[1]["cycle_hours"]
                              = <<(Earliest(dones) - Earliest(ips)) * 48000>>
                    /\ cr # NoDt
                         => CycleOf(key)[1]["lead_hours"]
                              = <<(Earliest(dones) - cr) * 48000>>
       /\ c_cycle["overall"]["count"]
            = Cardinality({key \in {"X-1", "X-2"} :
                            StampsInto(key, {"done", "closed"}) # {}})

\* the scenario: created at T0, into In Progress one tick later at T1, into
\* Done at T2: cycle 48 h, lead 96 h, also in the row "Overall"
C20_Witness ==
  /\ c_phase = "computed"
  /\ IssueGet(c_issues, "X-1", "created") = IsoStr(0)
  /\ c_events = <<[issue_key |-> "X-1", from_status |-> "Reviewing",
                   to_status |-> "In Progress", changed_at |-> IsoStr(1)],
                  [issue_key |-> "X-1", from_status |-> "In Progress",
                   to_status |-> "Done", changed_at |-> IsoStr(2)]>>
  /\ Len(c_cycle["data"]) = 1
  /\ c_cycle["data"][1]["cycle_hours"] = <<48000>>
  /\ c_cycle["data"][1]["lead_hours"] = <<96000>>
  /\ c_cycle["overall"]["cycle_p50_h"] = 48000
  /\ c_cycle["overall"]["lead_p50_h"] = 96000

(***************************************************************************)
(* The percentiles                                                         *)
(***************************************************************************)
\* the rank of _percentile: floor(n * p / 100), clamped to the last index
QRank(p) ==
  LET idx == (Len(q_data) * p) \div 100
  IN IF idx < Len(q_data) - 1 THEN idx ELSE Len(q_data) - 1

\* v is a sample of rank k in ascending order, rounded to the hundredth
IsRoundedRank(v, k) ==
  \E i \in 1..Len(q_data) :
    /\ Cardinality({j \in 1..Len(q_data) : q_data[j] < q_data[i]}) <= k
    /\ Cardinality({j \in 1..Len(q_data) : q_data[j] <= q_data[i]}) >= k + 1
    /\ v % 10 = 0
    /\ v - q_data[i] \in (0 - 5)..5

\* C21 as stated: p50 <= p90, and for a non-empty list both values are
\* elements of the list.
C21_PercentilesAreElements ==
  q_phase = "computed"
    => /\ q_p50 <= q_p90
       /\ q_data # <<>> => /\ q_p50 \in Range(q_data)
                           /\ q_p90 \in Range(q_data)

\* C21, amended: p50 <= p90 for every list of samples; both are 0 for the
\* empty list; for a non-empty list each is the sample of rank
\* floor(n * p / 100) (clamped to the last index) of the ascending order,
\* rounded to two decimals, which need not be an element of the list.
C21_PercentileMonotone ==
  q_phase = "computed"
    => /\ q_p50 <= q_p90
       /\ q_data = <<>> => q_p50 = 0 /\ q_p90 = 0
       /\ q_data # <<>> => /\ IsRoundedRank(q_p50, QRank(50))
                           /\ IsRoundedRank(q_p90, QRank(90))

\* three samples with p50 < p90, the median a value that rounding moves
C21_Witness ==
  /\ q_phase = "computed"
  /\ Len(q_data) = MaxSamples
  /\ q_p50 < q_p90
  /\ q_p50 \notin Range(q_data)

(***************************************************************************)
(* The tables of compute_metrics                                           *)
(***************************************************************************)
TableNames ==
  {"throughput", "submitted_for_signature", "cycle_time", "wip", "aging_wip",
   "reopen_rate", "time_in_status"}

AgingData == SubSeq(c_metrics["aging_wip"], 2, Len(c_metrics["aging_wip"]))
AgingKeys == {AgingData[n][1] : n \in 1..Len(AgingData)}

\* C22: the aging table has no row for an issue whose current status is in
\* the done set ("Done", "Closed") or contains an excluded substring
\* ("Overdue Review" contains "due"), however long the issue has been there.
C22_AgingExcludesDoneAndDue ==
  c_phase = "computed"
    => \A i \in 1..Len(c_issues) :
         c_issues[i]["status"] \in {"Done", "Closed", "Overdue Review"}
           => c_issues[i]["key"] \notin AgingKeys

\* sixty days after its creation the issue in "Overdue Review" has no row,
\* while the issue in progress beside it is in the last bucket
C22_Witness ==
  /\ c_phase = "computed"
  /\ c_run_time = 30
  /\ c_events = <<>>
  /\ Len(c_issues) = 2
  /\ c_issues[1]["status"] = "Overdue Review"
  /\ c_issues[1]["created"] = IsoStr(0)
  /\ AgingData = << <<"X-2", "In Progress", "ann", "", 60, ">30d">> >>

\* C23: all seven tables are returned, and without events and issues each
\* of them is its header row alone.
C23_EmptyTablesAreHeaderOnly ==
  c_phase = "computed"
    => /\ DOMAIN c_metrics = TableNames
       /\ (c_events = <<>> /\ c_issues = <<>>)
            => \A t \in TableNames : Len(c_metrics[t]) = 1

\* without events and issues six tables are their header alone and the
\* cycle-time table has the row "Overall" with count 0 below its header
C23_Witness ==
  /\ c_phase = "computed"
  /\ c_events = <<>>
  /\ c_issues = <<>>
  /\ \A t \in TableNames \ {"cycle_time"} : Len(c_metrics[t]) = 1
  /\ Len(c_metrics["cycle_time"]) = 2
  /\ c_metrics["cycle_time"][2]["group"] = "Overall"
  /\ c_metrics["cycle_time"][2]["count"] = 0

\* the events whose changed_at can be read
ReadableEvents ==
  SelectSeq(c_events, LAMBDA e : e["changed_at"] \notin {"", BadStamp})

\* C24: an event whose changed_at cannot be read contributes to no table:
\* the tables are those computed from the readable events alone.
C24_UnreadableEventsChangeNothing ==
  c_phase = "computed"
    => c_metrics = compute_metrics(ReadableEvents, c_issues, c_run_time)

\* an event without a timestamp beside a readable one: it is skipped and
\* every table is as without it
C24_Witness ==
  /\ c_phase = "computed"
  /\ Len(c_events) = 2
  /\ c_events[1]["changed_at"] = IsoStr(2)
  /\ c_events[1]["to_status"] = "Done"
  /\ c_events[2]["changed_at"] = ""
  /\ c_events[2]["to_status"] = "Done"
  /\ Len(c_metrics["throughput"]) = 2
  /\ c_metrics["throughput"][2][2] = 1
  /\ c_metrics = compute_metrics(ReadableEvents, c_issues, c_run_time)

(***************************************************************************)
(* The spans of compute_status_durations                                   *)
(***************************************************************************)
\* the events of an issue in the order of their timestamps, and those that
\* open a span: recognized to_status, readable timestamp
SortedOf(key) == issue_events(c_events, key)

OpeningEvents(key) ==
  {i \in 1..Len(SortedOf(key)) :
     /\ Upper(PyOr(SortedOf(key)[i]["to_status"], "")) \in STATUS_SET
     /\ _parse_dt(SortedOf(key)[i]["changed_at"]) # NoDt}

\* the exit the rule names for the span of event i: the timestamp of the
\* first later event that leaves the state; without one, and with the
\* issue in another state, the timestamp of the event that follows; NoDt
\* where the rule names none
StatedExit(key, i) ==
  LET evs   == SortedOf(key)
      to_s  == Upper(PyOr(evs[i]["to_status"], ""))
      later == {j \in (i + 1)..Len(evs) : Upper(PyOr(evs[j]["from_status"], "")) = to_s}
  IN IF later # {}
     THEN _parse_dt(evs[CHOOSE j \in later : \A j2 \in later : j <= j2]["changed_at"])
     ELSE IF CurrentStatus(key) # to_s /\ i < Len(evs)
     THEN _parse_dt(evs[i + 1]["changed_at"])
     ELSE NoDt

\* the first event of the issue leaves a recognized state, and creation
\* and event have readable timestamps
LeavesFirstState(key) ==
  /\ SortedOf(key) # <<>>
  /\ Upper(PyOr(SortedOf(key)[1]["from_status"], "")) \in STATUS_SET
  /\ _parse_dt(SortedOf(key)[1]["changed_at"]) # NoDt
  /\ _parse_dt(IssueGet(c_issues, key, "created")) # NoDt

RowsLike(key, status, entered, exited) ==
  {n \in 1..Len(LongOf(key)) :
     /\ LongOf(key)[n]["status"] = status
     /\ LongOf(key)[n]["entered_at"] = IsoStr(entered)
     /\ LongOf(key)[n]["exited_at"] = IsoStr(exited)}

\* C25: every event with a recognized to_status and a readable timestamp
\* opens exactly one span at changed_at; the span ends at the timestamp of
\* the first later event of the issue whose from_status is that state, and
\* without such an event, when the issue is in another state now, at the
\* timestamp of the event that follows.
C25_SpanPerEventWithStatedExit ==
  c_phase = "computed"
    => \A key \in {"X-1", "X-2"} :
         /\ Len(LongOf(key))
              = Cardinality(OpeningEvents(key)) + (IF LeavesFirstState(key) THEN 1 ELSE 0)
         /\ \A i \in OpeningEvents(key) :
              LET evs  == SortedOf(key)
                  to_s == Upper(PyOr(evs[i]["to_status"], ""))
                  at   == _parse_dt(evs[i]["changed_at"])
                  same == {j \in OpeningEvents(key) :
                             /\ Upper(PyOr(evs[j]["to_status"], "")) = to_s
                             /\ _parse_dt(evs[j]["changed_at"]) = at
                             /\ StatedExit(key, j) = StatedExit(key, i)}
              IN StatedExit(key, i) # NoDt
                   => Cardinality(RowsLike(key, to_s, at, StatedExit(key, i)))
                        >= Cardinality(same)

\* REVIEWING is entered at T1 and left by the third event at T2, an event
\* to DONE at T1 lies between; the issue is in REVIEWING now, so the span
\* of DONE ends at the event that follows it
C25_Witness ==
  /\ c_phase = "computed"
  /\ c_events = <<[issue_key |-> "X-1", from_status |-> None,
                   to_status |-> "Reviewing", changed_at |-> IsoStr(1)],
                  [issue_key |-> "X-1", from_status |-> "In Progress",
                   to_status |-> "Done", changed_at |-> IsoStr(1)],
                  [issue_key |-> "X-1", from_status |-> "Reviewing",
                   to_status |-> "In Progress", changed_at |-> IsoStr(2)]>>
  /\ CurrentStatus("X-1") = "REVIEWING"
  /\ Len(LongOf("X-1")) = 2
  /\ RowsLike("X-1", "REVIEWING", 1, 2) # {}
  /\ RowsLike("X-1", "DONE", 1, 2) # {}

C29_CycleTimesNonNegative ==
  c_phase = "computed"
    => /\ \A n \in 1..Len(c_cycle["data"]) :
            \A k \in 1..Len(c_cycle["data"][n]["cycle_hours"]) :
              c_cycle["data"][n]["cycle_hours"][k] >= 0
       /\ c_cycle["overall"]["cycle_p50_h"] >= 0
       /\ c_cycle["overall"]["cycle_p90_h"] >= 0

\* the issue reaches Done at T1 and is taken into progress at T2: its
\* cycle time is -48 h, and so is the median of the row "Overall"
C29_NegativeCycleTime ==
  /\ c_phase = "computed"
  /\ \E i \in 1..Len(c_events) :
       /\ c_events[i]["to_status"] = "Done"
       /\ c_events[i]["changed_at"] = IsoStr(1)
  /\ \E i \in 1..Len(c_events) :
       /\ c_events[i]["to_status"] = "In Progress"
       /\ c_events[i]["changed_at"] = IsoStr(2)
  /\ Len(c_cycle["data"]) = 1
  /\ c_cycle["data"][1]["cycle_hours"] = <<0 - 48000>>
  /\ c_cycle["overall"]["cycle_p50_h"] = 0 - 48000

(***************************************************************************)
(* The tab and the corpus over the runs                                    *)
(***************************************************************************)
\* C27: the movement_events tab is append-only: no step of a run deletes,
\* reorders or changes a row that is in the tab; a row keeps the values it
\* was appended with, also when a later run derives its event_id with
\* other denormalized values.
C27_TabIsAppendOnly ==
  [][/\ sheet["exists"] => sheet'["exists"]
     /\ Len(sheet'["rows"]) >= Len(sheet["rows"])
     /\ SubSeq(sheet'["rows"], 1, Len(sheet["rows"])) = sheet["rows"]]_vars

\* a run has just written the tab; it derived an event whose row is in the
\* tab with another current_status, and the row is the one of the earlier
\* run
C27_Witness ==
  /\ pc = "dashboard"
  /\ ~run["dry_run"]
  /\ \E n \in 2..Len(sheet["rows"]) :
       \E e \in Range(run["events"]) :
         /\ e["event_id"] = sheet["rows"][n]["event_id"]
         /\ e["current_status"] # sheet["rows"][n]["current_status"]

\* the cache files as the last completed save left them
CachedIssues == json_load_issues(f_issues["data"])
CachedChangelogs == json_load_changelogs(f_changelogs["data"])

\* C28: between the runs the cached issue list holds at most one issue per
\* key and the cached change-history map has exactly the keys of the
\* cached issues; an incremental run saves every key it loaded.
C28_CorpusStaysWellFormed ==
  /\ (pc = "idle" /\ f_issues # AbsentFile)
       => /\ f_changelogs # AbsentFile
          /\ UniqueKeys(CachedIssues)
          /\ DictKeys(CachedChangelogs) = IssueKeys(CachedIssues)
  /\ (run["incremental"] /\ pc \in {"save_issues", "save_changelogs", "save_meta",
                                    "write", "dashboard"})
       => /\ UniqueKeys(run["issues"])
          /\ IssueKeys(run["cached_issues"]) \subseteq IssueKeys(run["issues"])
          /\ DictKeys(run["changelogs"]) = IssueKeys(run["issues"])
  /\ (run["incremental"] /\ pc \in {"write", "dashboard"})
       => IssueKeys(run["cached_issues"]) \subseteq IssueKeys(CachedIssues)

\* an incremental run has saved a corpus to which it added an issue and in
\* which it replaced the snapshot of another
C28_Witness ==
  /\ pc = "write"
  /\ run["incremental"]
  /\ Len(run["cached_issues"]) = 1
  /\ Len(run["updated_issues"]) = 2
  /\ IssueKeys(CachedIssues) = {"X-1", "X-2"}
  /\ DictKeys(CachedChangelogs) = {"X-1", "X-2"}

(***************************************************************************)
(* Claims about _get (checked under SpecGet)                               *)
(***************************************************************************)
LastResponse == g_responses[Len(g_responses)]

\* C30: a call of _get issues at most cfg.max_retries requests; when it
\* returns, it returns the JSON body of its last response, which is neither
\* 429 nor 5xx nor an HTTP error status; when it raises, it has made all
\* cfg.max_retries attempts.
C30_GetRetriesThenRaises ==
  /\ Len(g_responses) <= g_max_retries
  /\ g_pc = "returned"
       => /\ LastResponse["error"] = None
          /\ LastResponse["status_code"] # 429
          /\ LastResponse["status_code"] < 400
          /\ g_result = <<"return", resp_json(LastResponse["text"])[1]>>
  /\ g_pc = "raised" => Len(g_responses) = g_max_retries

\* the first response is a 429 whose Retry-After is an HTTP date: the call
\* has raised ValueError with attempts left and without having slept
C30_RaisedBeforeLastAttempt ==
  /\ g_pc = "raised"
  /\ g_max_retries > 1
  /\ Len(g_responses) = 1
  /\ LastResponse["status_code"] = 429
  /\ DictGet(LastResponse["headers"], "Retry-After") = HttpDate
  /\ g_result = <<"raise", "ValueError">>
  /\ g_slept = <<>>

====
